---- MODULE Spec2Model ----
(***************************************************************************)
(* A model of the tests of the study corpus.                               *)
(*                                                                         *)
(* The asynchronous tests: the promise tests                               *)
(* (src/src/__tests__/5-async/promises.test.js and the older               *)
(* src/unnamed/part_003), the generator tests                              *)
(* (src/src/__tests__/5-async/iterators-generators.test.js, part_004), the *)
(* callbacks test (part_005) and the multicast observable (part_009).      *)
(* Each test body is translated statement by statement into actions that   *)
(* run while pc is a position of the test's synchronous body.  The         *)
(* machinery the tests call (new Promise, then, catch, Promise.resolve,    *)
(* Promise.all, setTimeout, setImmediate, generators) is modelled by       *)
(* operators on a "world" record holding the heap of promises, the         *)
(* microtask queue, the timer list and the closure variables of the        *)
(* running test.  After the synchronous body has finished the event loop   *)
(* takes over: one microtask at a time while the queue is not empty,       *)
(* otherwise the earliest timer or an immediate.                           *)
(*                                                                         *)
(* The language tests (the Person constructor, this, sparse arrays, NaN,   *)
(* fizz-buzz): the function under test is an operator, the run draws its   *)
(* arguments at Init and an action applies it and records what it gave.    *)
(***************************************************************************)
EXTENDS Integers, Sequences, FiniteSets, TLC

VARIABLES
    test,       \* the test that is running (chosen at Init)
    inp,        \* the parameters of the run (delays, values, arguments)
    pc,         \* position in the synchronous body of the test
    promises,   \* heap of promise objects, a promise is its index
    jobs,       \* the microtask (promise job) queue, FIFO
    timers,     \* pending setTimeout callbacks
    now,        \* the event loop's clock, in ms
    env,        \* the closure variables of the test, by their source names
    gens        \* heap of generator objects, a generator is its index

vars == <<test, inp, pc, promises, jobs, timers, now, env, gens>>

----------------------------------------------------------------------------
(* Bounds of the model. *)

\* how many settle attempts the executor of the settle-once scenario makes
MaxAttempts == 3
\* largest argument x given to addWhileLessThanX
MaxX == 6
\* how many assignments the sparse-array scenario makes to its array
MaxAssign == 3
\* largest array index whose string form is recognised as an index
MaxIndex == 10
\* how many accesses the proxy scenario makes through its proxy
MaxAccesses == 3
\* how many members the member-deletion scenario adds or deletes
MaxMemberOps == 3
\* how many calls of func the default-parameter scenario makes
MaxCalls == 3
\* how many substitutions a tagged template of the scenario has at most
MaxValues == 2
\* how many next() calls and for...of loops are made on pairIterator
MaxIterations == 4
\* how many calls of unsubscribe() the multicast scenario makes
MaxUnsubscribes == 3

----------------------------------------------------------------------------
(* JavaScript values.  A value is a pair <<kind, payload>> so that values  *)
(* of different kinds are never compared payload to payload.               *)

Undefined == <<"undefined", "">>
Str(s) == <<"string", s>>
Num(n) == <<"number", n>>
Ref(p) == <<"promise", p>>
Arr(s) == <<"array", s>>
Err(name, message) == <<name, message>>

Kind(v) == v[1]
\* the number NaN
NaN == <<"NaN", "">>

\* mutant: strict equality holds between any value and itself
StrictEq_Reflexive(a, b) == Kind(a) = Kind(b) /\ a[2] = b[2]

\* strict equality (===) of two primitive values; NaN equals nothing
StrictEq(a, b) == Kind(a) # "NaN" /\ Kind(a) = Kind(b) /\ a[2] = b[2]

RECURSIVE ArrEq(_, _)
\* _.isEqual / arraysEqual on arrays of primitives
ArrEq(a, b) ==
    IF Len(a) # Len(b) THEN FALSE
    ELSE IF Len(a) = 0 THEN TRUE
    ELSE StrictEq(Head(a), Head(b)) /\ ArrEq(Tail(a), Tail(b))

\* a closure: the function's name in the source plus what it captured
Fn(name) == [fn |-> name, p |-> 0, i |-> 0]
FnP(name, p) == [fn |-> name, p |-> p, i |-> 0]
FnPI(name, p, i) == [fn |-> name, p |-> p, i |-> i]
\* an omitted then() argument
NoHandler == Fn("")

Bool(b) == <<"boolean", b>>
\* a Set object: its elements in insertion order, without duplicates
SetOf(elems) == <<"Set", elems>>

\* ToBoolean, as !v, v || w and if (v) apply it
Truthy(v) ==
    CASE Kind(v) \in {"undefined", "null", "NaN"} -> FALSE
      [] Kind(v) = "boolean" -> v[2]
      [] Kind(v) = "number" -> v[2] # 0
      [] Kind(v) = "string" -> v[2] # ""
      [] OTHER -> TRUE

Null == <<"null", "">>
\* an ordinary object: its own properties, by name
Obj(props) == <<"object", props>>

\* the typeof operator
Typeof(v) ==
    CASE Kind(v) \in {"undefined", "string", "number", "boolean"} -> Kind(v)
      [] Kind(v) = "NaN" -> "number"
      [] Kind(v) = "function" -> "function"
      [] OTHER -> "object"

\* a function value: an ordinary function, an arrow function with the
\* this it captured where it was created, or a bound function with the
\* this it was bound to
Func(kind, this) == <<"function", [kind |-> kind, this |-> this]>>

\* v[name], v.name
GetProperty(v, name) ==
    IF Kind(v) \in {"undefined", "null"}
    THEN [threw |-> TRUE,
          value |-> Err("TypeError", "Cannot read properties of " \o Kind(v))]
    ELSE IF Kind(v) = "object" /\ name \in DOMAIN v[2]
    THEN [threw |-> FALSE, value |-> v[2][name]]
    ELSE [threw |-> FALSE, value |-> Undefined]

----------------------------------------------------------------------------
(* The world the operators act on, and the outcome of calling a function.  *)

World == [promises |-> promises, jobs |-> jobs, timers |-> timers,
          now |-> now, env |-> env, gens |-> gens]

Apply(w) ==
    /\ promises' = w.promises
    /\ jobs' = w.jobs
    /\ timers' = w.timers
    /\ now' = w.now
    /\ env' = w.env
    /\ gens' = w.gens

Ret(w, v) == [w |-> w, threw |-> FALSE, value |-> v]
Throw(w, e) == [w |-> w, threw |-> TRUE, value |-> e]

\* expect(...).toBe... : the outcome is logged; a failed expectation throws
Expect(w, ok) == [w EXCEPT !.env.expects = Append(@, ok)]
ExpectFailed == Err("JestAssertionError", "expect")

----------------------------------------------------------------------------
(* Promises.                                                               *)

PromiseObject ==
    [state |-> "pending", value |-> Undefined, resolved |-> FALSE,
     reactions |-> <<>>, values |-> <<>>, remaining |-> 0]

\* new Promise object; its index is Len(w.promises) + 1
AllocPromise(w) == [w EXCEPT !.promises = Append(@, PromiseObject)]
NextPromise(w) == Len(w.promises) + 1

ReactionJob(r, type, arg) ==
    [kind |-> "reaction",
     handler |-> IF type = "fulfilled" THEN r.onFulfilled ELSE r.onRejected,
     type |-> type, derived |-> r.derived, arg |-> arg, thenable |-> 0]

ThenableJob(p, t) ==
    [kind |-> "thenable", handler |-> NoHandler, type |-> "fulfilled",
     derived |-> p, arg |-> Undefined, thenable |-> t]

\* mutant: the reactions are scheduled last registered first
TriggerReactions_Reversed(rs, type, arg) ==
    [k \in 1..Len(rs) |-> ReactionJob(rs[Len(rs) + 1 - k], type, arg)]

\* one job per registered reaction, in registration order
TriggerReactions(rs, type, arg) ==
    [k \in 1..Len(rs) |-> ReactionJob(rs[k], type, arg)]

\* FulfillPromise / RejectPromise: record the outcome, schedule the reactions
SettlePromise(w, p, type, v) ==
    [w EXCEPT
       !.promises[p].state = type,
       !.promises[p].value = v,
       !.promises[p].reactions = <<>>,
       !.jobs = @ \o TriggerReactions(w.promises[p].reactions, type, v)]

FulfillPromise(w, p, v) == SettlePromise(w, p, "fulfilled", v)
RejectPromise(w, p, r) == SettlePromise(w, p, "rejected", r)

\* mutant: resolve() stores a promise as the value instead of adopting it
ResolveFn_NoAdopt(w, p, v) ==
    IF w.promises[p].resolved THEN w
    ELSE SettlePromise([w EXCEPT !.promises[p].resolved = TRUE], p,
                       "fulfilled", v)

\* the resolve function handed to an executor or owned by a derived promise
ResolveFn(w, p, v) ==
    IF w.promises[p].resolved THEN w
    ELSE LET w1 == [w EXCEPT !.promises[p].resolved = TRUE]
         IN  IF Kind(v) = "promise"
             THEN [w1 EXCEPT !.jobs = Append(@, ThenableJob(p, v[2]))]
             ELSE FulfillPromise(w1, p, v)

\* mutant: reject() does not look at whether the promise is resolved already
RejectFn_Unguarded(w, p, r) ==
    SettlePromise([w EXCEPT !.promises[p].resolved = TRUE], p, "rejected", r)

\* the reject function handed to an executor or owned by a derived promise
RejectFn(w, p, r) ==
    IF w.promises[p].resolved THEN w
    ELSE RejectPromise([w EXCEPT !.promises[p].resolved = TRUE], p, r)

\* mutant: a handler attached after settlement is never scheduled
Then_OnlyPending(w, p, onFulfilled, onRejected) ==
    LET d == Len(w.promises) + 1
        r == [onFulfilled |-> onFulfilled, onRejected |-> onRejected,
              derived |-> d]
        w1 == [w EXCEPT !.promises = Append(@, PromiseObject)]
    IN  IF w.promises[p].state = "pending"
        THEN [w1 EXCEPT !.promises[p].reactions = Append(@, r)]
        ELSE w1

\* p.then(onFulfilled, onRejected); the derived promise is NextPromise(w)
Then(w, p, onFulfilled, onRejected) ==
    LET d == NextPromise(w)
        w1 == AllocPromise(w)
        r == [onFulfilled |-> onFulfilled, onRejected |-> onRejected,
              derived |-> d]
        st == w.promises[p].state
    IN  IF st = "pending"
        THEN [w1 EXCEPT !.promises[p].reactions = Append(@, r)]
        ELSE [w1 EXCEPT !.jobs = Append(@, ReactionJob(r, st, w.promises[p].value))]

\* p.catch(onRejected)
Catch(w, p, onRejected) == Then(w, p, NoHandler, onRejected)

\* Promise.resolve(v) for a value that is not a promise
PromiseResolve(w, v) == ResolveFn(AllocPromise(w), NextPromise(w), v)

\* setTimeout(cb, delay)
SetTimeout(w, cb, delay) ==
    [w EXCEPT !.timers = Append(@, [due |-> w.now + delay, cb |-> cb])]

RECURSIVE AllSubscribe_NoReject(_, _, _, _)
\* mutant: Promise.all does not observe the rejection of its inputs
AllSubscribe_NoReject(w, a, inputs, k) ==
    IF k > Len(inputs) THEN w
    ELSE AllSubscribe_NoReject(
            Then(w, inputs[k], [fn |-> "Promise.all resolve element",
                                p |-> a, i |-> k], NoHandler),
            a, inputs, k + 1)

RECURSIVE AllSubscribe(_, _, _, _)
\* the loop of Promise.all: input k is observed with then(resolveElement, reject)
AllSubscribe(w, a, inputs, k) ==
    IF k > Len(inputs) THEN w
    ELSE AllSubscribe(Then(w, inputs[k],
                           FnPI("Promise.all resolve element", a, k),
                           FnP("Promise.all reject", a)),
                      a, inputs, k + 1)

\* Promise.all(inputs) for a list of promises; the result is NextPromise(w)
PromiseAll(w, inputs) ==
    LET a == NextPromise(w)
        w1 == [AllocPromise(w) EXCEPT
                 !.promises[a].values = [k \in 1..Len(inputs) |-> Undefined],
                 !.promises[a].remaining = Len(inputs)]
    IN  IF Len(inputs) = 0 THEN ResolveFn(w1, a, Arr(<<>>))
        ELSE AllSubscribe(w1, a, inputs, 1)

\* mutant: the results are stored in the order the inputs complete
AllResolveElement_CompletionOrder(w, a, k, x) ==
    LET n == Len(w.promises[a].values) - w.promises[a].remaining + 1
        w1 == [w EXCEPT !.promises[a].values[n] = x,
                        !.promises[a].remaining = @ - 1]
    IN  IF w1.promises[a].remaining = 0
        THEN ResolveFn(w1, a, Arr(w1.promises[a].values))
        ELSE w1

\* the resolve element function of Promise.all for input k of a
AllResolveElement(w, a, k, x) ==
    LET w1 == [w EXCEPT !.promises[a].values[k] = x,
                        !.promises[a].remaining = @ - 1]
    IN  IF w1.promises[a].remaining = 0
        THEN ResolveFn(w1, a, Arr(w1.promises[a].values))
        ELSE w1

----------------------------------------------------------------------------
(* Generators.  A generator object remembers its function, whether it has  *)
(* started, is suspended at a yield or has completed, and its locals.      *)

GeneratorObject(fn, locals) ==
    [fn |-> fn, state |-> "suspendedStart", locals |-> locals]

\* calling a generator function: the object is NextGen(w), no body has run
AllocGen(w, fn, locals) ==
    [w EXCEPT !.gens = Append(@, GeneratorObject(fn, locals))]
NextGen(w) == Len(w.gens) + 1

\* what next() / return() hand back: {value, done}, or an exception
Yield(w, g, locals, v) ==
    [w |-> [w EXCEPT !.gens[g].state = "suspendedYield",
                     !.gens[g].locals = locals],
     threw |-> FALSE, value |-> v, done |-> FALSE]
Complete(w, g, v) ==
    [w |-> [w EXCEPT !.gens[g].state = "completed"],
     threw |-> FALSE, value |-> v, done |-> TRUE]
Abort(w, g, e) ==
    [w |-> [w EXCEPT !.gens[g].state = "completed"],
     threw |-> TRUE, value |-> e, done |-> TRUE]

Digit(d) ==
    CASE d = 0 -> "0" [] d = 1 -> "1" [] d = 2 -> "2" [] d = 3 -> "3"
      [] d = 4 -> "4" [] d = 5 -> "5" [] d = 6 -> "6" [] d = 7 -> "7"
      [] d = 8 -> "8" [] d = 9 -> "9"

RECURSIVE NatToString(_)
\* the decimal digits of a natural number
NatToString(n) ==
    IF n < 10 THEN Digit(n) ELSE NatToString(n \div 10) \o Digit(n % 10)

\* ToString of a value put into a template literal
TemplateString(v) ==
    CASE Kind(v) = "number" ->
            IF v[2] < 0 THEN "-" \o NatToString(-v[2]) ELSE NatToString(v[2])
      [] Kind(v) = "string" -> v[2]
      [] Kind(v) = "undefined" -> "undefined"

\* mutant: the body does not suspend at its yield
Gen_gen_NoSuspend(w, g, sent) ==
    LET w1 == [w EXCEPT !.env.activity = @ \o <<"before yield", "after yield">>]
        ok == w1.env.x = 100
    IN  IF ok THEN Complete(Expect(w1, ok), g, Undefined)
        ELSE Abort(Expect(w1, ok), g, ExpectFailed)

\* function* gen() of test "generator-manual"
Gen_gen(w, g, sent) ==
    IF w.gens[g].state = "suspendedStart"
    THEN Yield([w EXCEPT !.env.activity = Append(@, "before yield")],
               g, w.gens[g].locals, Num(10))
    ELSE LET w1 == [w EXCEPT !.env.activity = Append(@, "after yield")]
             ok == w1.env.x = 100
         IN  IF ok THEN Complete(Expect(w1, ok), g, Undefined)
             ELSE Abort(Expect(w1, ok), g, ExpectFailed)

\* let double = (x) => x * 2
double(x) == x * 2

\* function* repeat(fun, times), always called with fun = double
Gen_repeat(w, g, sent) ==
    LET l == w.gens[g].locals
        i == IF w.gens[g].state = "suspendedStart" THEN 0 ELSE l.i + 1
    IN  IF i < l.times
        THEN Yield(w, g, [l EXCEPT !.i = i], Num(double(i)))
        ELSE Complete(w, g, Undefined)

\* mutant: the loop condition is val <= x
LessThan_OrEqual(val, x) == Kind(val) = "number" /\ val[2] <= x

\* val < x for the value a yield received
LessThan(val, x) == Kind(val) = "number" /\ val[2] < x

\* function* addWhileLessThanX(x)
Gen_addWhileLessThanX(w, g, sent) ==
    LET l == w.gens[g].locals
    IN  IF w.gens[g].state = "suspendedStart"
        THEN Yield(w, g, [l EXCEPT !.sum = 0], Str("begin"))
        ELSE IF LessThan(sent, l.x)
             THEN Yield(w, g, [l EXCEPT !.sum = @ + sent[2], !.val = sent],
                        Undefined)
             ELSE Complete([w EXCEPT !.gens[g].locals.val = sent], g, Num(l.sum))

\* function* genValues(x)
Gen_genValues(w, g, sent) ==
    LET l == w.gens[g].locals
        i == IF w.gens[g].state = "suspendedStart" THEN 0 ELSE l.i + 1
    IN  IF i < l.x
        THEN Yield(w, g, [l EXCEPT !.i = i], Num(i))
        ELSE Complete(w, g, Undefined)

\* mutant: yield* hands out the inner generator's first value only
Gen_delegator_FirstOnly(w, g, sent) ==
    LET l == w.gens[g].locals
    IN  CASE w.gens[g].state = "suspendedStart" ->
                Yield(w, g, [l EXCEPT !.at = "starting"], Str("starting"))
          [] l.at = "starting" ->
                LET w1 == AllocGen(w, "genValues", [i |-> 0, x |-> l.x])
                    r == Gen_genValues(w1, NextGen(w), Undefined)
                IN  IF r.done
                    THEN Yield(r.w, g, [l EXCEPT !.at = "ending"], Str("ending"))
                    ELSE Yield(r.w, g, [l EXCEPT !.at = "delegating",
                                                 !.inner = NextGen(w)], r.value)
          [] l.at = "delegating" ->
                Yield(w, g, [l EXCEPT !.at = "ending"], Str("ending"))
          [] l.at = "ending" -> Complete(w, g, Undefined)

\* function* delegator(x): yield "starting"; yield* genValues(x);
\* yield "ending".  While yield* is delegating, each next() is passed to the
\* inner generator, and its end resumes the delegator.
Gen_delegator(w, g, sent) ==
    LET l == w.gens[g].locals
    IN  CASE w.gens[g].state = "suspendedStart" ->
                Yield(w, g, [l EXCEPT !.at = "starting"], Str("starting"))
          [] l.at \in {"starting", "delegating"} ->
                LET w1 == IF l.at = "starting"
                          THEN AllocGen(w, "genValues", [i |-> 0, x |-> l.x])
                          ELSE w
                    inner == IF l.at = "starting" THEN NextGen(w) ELSE l.inner
                    r == Gen_genValues(w1, inner, sent)
                IN  IF r.done
                    THEN Yield(r.w, g, [l EXCEPT !.at = "ending",
                                                 !.inner = inner], Str("ending"))
                    ELSE Yield(r.w, g, [l EXCEPT !.at = "delegating",
                                                 !.inner = inner], r.value)
          [] l.at = "ending" -> Complete(w, g, Undefined)

\* g.next(sent)
GenNext(w, g, sent) ==
    IF w.gens[g].state = "completed"
    THEN [w |-> w, threw |-> FALSE, value |-> Undefined, done |-> TRUE]
    ELSE CASE w.gens[g].fn = "gen" -> Gen_gen(w, g, sent)
           [] w.gens[g].fn = "repeat" -> Gen_repeat(w, g, sent)
           [] w.gens[g].fn = "addWhileLessThanX" ->
                Gen_addWhileLessThanX(w, g, sent)
           [] w.gens[g].fn = "genValues" -> Gen_genValues(w, g, sent)
           [] w.gens[g].fn = "delegator" -> Gen_delegator(w, g, sent)

\* mutant: return() leaves the generator suspended
GenReturn_NoOp(w, g, v) ==
    [w |-> w, threw |-> FALSE, value |-> v, done |-> TRUE]

\* g.return(v): none of the generators has a finally block to run
GenReturn(w, g, v) == Complete(w, g, v)

RECURSIVE ExpectAll(_, _)
\* a run of expect() calls: logged up to and including the first failure
ExpectAll(w, oks) ==
    IF oks = <<>> THEN w
    ELSE IF Head(oks) THEN ExpectAll(Expect(w, TRUE), Tail(oks))
    ELSE Expect(w, FALSE)

AllOk(oks) == \A k \in 1..Len(oks) : oks[k]

----------------------------------------------------------------------------
(* test "promises-chaining"                                                *)

\* the callback given to setTimeout by the executor
Chaining_timeout(w, p) == Ret(ResolveFn(w, p, Str("success")), Undefined)

\* the executor: runs inside new Promise
Chaining_executor(w, p) ==
    SetTimeout([w EXCEPT !.env.listenerOrder = Append(@, 0)],
               FnP("chaining.timeout", p), inp.delay)

\* first listener attached to promise
Chaining_then1(w, success) ==
    LET w1 == Expect(w, StrictEq(success, Str("success")))
    IN  IF ~StrictEq(success, Str("success")) THEN Throw(w1, ExpectFailed)
        ELSE Ret([w1 EXCEPT !.env.listenerOrder = Append(@, 1)], Undefined)

\* listener chained on the result of the first then()
Chaining_then3(w, val) ==
    Ret([w EXCEPT !.env.listenerOrder = Append(@, 3)], Undefined)

\* last listener of the chain: checks the recorded order
Chaining_thenCheck(w, val) ==
    LET ok == w.env.listenerOrder = <<0, 1, 2, 3>>
    IN  IF ok THEN Ret(Expect(w, ok), Undefined)
        ELSE Throw(Expect(w, ok), ExpectFailed)

\* second listener attached directly to promise
Chaining_then2(w, val) ==
    LET w1 == Expect(w, StrictEq(val, Str("success")))
    IN  IF ~StrictEq(val, Str("success")) THEN Throw(w1, ExpectFailed)
        ELSE Ret([w1 EXCEPT !.env.listenerOrder = Append(@, 2)], Undefined)

----------------------------------------------------------------------------
(* test "promises-guaranteed-callback-on-settlement"                       *)

\* first handler: called = true
Settled_then1(w, value) == Ret([w EXCEPT !.env.called = TRUE], Undefined)

\* chained handler: expect(called).toBeTruthy()
Settled_then2(w, value) ==
    IF w.env.called THEN Ret(Expect(w, TRUE), Undefined)
    ELSE Throw(Expect(w, FALSE), ExpectFailed)

----------------------------------------------------------------------------
(* "Subscribers are invoked exactly once when the promise settles, even if *)
(* you attempt to settle the promise more than once": a promise whose      *)
(* executor makes the settle attempts inp.attempts, attempt k delivering   *)
(* the number k, either synchronously or from one timer callback each.     *)

\* settle attempt k: resolve(k) or reject(k)
SettleOnce_attempt(w, p, k) ==
    IF inp.attempts[k] = "resolve" THEN ResolveFn(w, p, Num(k))
    ELSE RejectFn(w, p, Num(k))

RECURSIVE SettleOnce_attempts(_, _, _)
\* the executor's attempts from k on
SettleOnce_attempts(w, p, k) ==
    IF k > Len(inp.attempts) THEN w
    ELSE SettleOnce_attempts(
            IF inp.async
            THEN SetTimeout(w, FnPI("settleOnce.timeout", p, k), 0)
            ELSE SettleOnce_attempt(w, p, k),
            p, k + 1)

SettleOnce_executor(w, p) == SettleOnce_attempts(w, p, 1)

\* subscriber i is told the outcome
SettleOnce_subscriber(w, i, type, value) ==
    Ret([w EXCEPT !.env.calls = Append(@, [subscriber |-> i, type |-> type,
                                          value |-> value])], Undefined)

----------------------------------------------------------------------------
(* test "promises-gating"                                                  *)

\* setTimeout(() => resolve(n), delay) of p1 (n = 1) and p2 (n = 2)
Gating_timeout(w, p, n) == Ret(ResolveFn(w, p, Num(n)), Undefined)

Gating_executor(w, p, n, delay) ==
    SetTimeout(w, FnPI("gating.timeout", p, n), delay)

\* p3.then(value => { expect(isEqual([1, 2], value)); resolve("done") })
Gating_then(w, outer, value) ==
    LET ok == Kind(value) = "array" /\ ArrEq(<<Num(1), Num(2)>>, value[2])
    IN  IF ok THEN Ret(ResolveFn(Expect(w, ok), outer, Str("done")), Undefined)
        ELSE Throw(Expect(w, ok), ExpectFailed)

\* .catch(error => reject(error))
Gating_catch(w, outer, error) == Ret(RejectFn(w, outer, error), Undefined)

----------------------------------------------------------------------------
(* test "multiple-promises-resolve-and-reject"                             *)

Reject_executor1(w, p) ==
    ResolveFn([w EXCEPT !.env.executedPromises = @ \cup {"p1"}], p, Str("good"))

Reject_executor2(w, p) ==
    RejectFn([w EXCEPT !.env.executedPromises = @ \cup {"p2"}], p,
             Err("Error", "bad"))

\* .then(val => expect(false).toBeTruthy())
Reject_then(w, val) == Throw(Expect(w, FALSE), ExpectFailed)

\* .catch(err => { expect(err.message).toBe("bad"); expect(isEqual(...)) })
Reject_catch(w, err) ==
    LET ok1 == Kind(err) \in {"Error", "ReferenceError", "JestAssertionError"}
               /\ err[2] = "bad"
        ok2 == w.env.executedPromises = {"p1", "p2"}
    IN  IF ~ok1 THEN Throw(Expect(w, FALSE), ExpectFailed)
        ELSE IF ~ok2 THEN Throw(Expect(Expect(w, TRUE), FALSE), ExpectFailed)
        ELSE Ret(Expect(Expect(w, TRUE), TRUE), Undefined)

----------------------------------------------------------------------------
(* test "error-handling-within-then"                                       *)

\* let x = z : z is not defined
ErrorInThen_then1(w, value) == Throw(w, Err("ReferenceError", "z is not defined"))

\* expect(true).toBeFalsy()
ErrorInThen_then2(w, value) == Throw(Expect(w, FALSE), ExpectFailed)

\* expect(err instanceof ReferenceError).toBeTruthy()
ErrorInThen_catch(w, err) ==
    IF Kind(err) = "ReferenceError" THEN Ret(Expect(w, TRUE), Undefined)
    ELSE Throw(Expect(w, FALSE), ExpectFailed)

----------------------------------------------------------------------------
(* test "nested-promise"                                                   *)

Nested_executor(w, p) ==
    ResolveFn([w EXCEPT !.env.results = @ \cup {1}], p, Num(1))

\* setTimeout(() => { results.add(2); resolve(2) }, 100)
Nested_timeout(w, p) ==
    Ret(ResolveFn([w EXCEPT !.env.results = @ \cup {2}], p, Num(2)), Undefined)

\* value => new Promise(resolve => setTimeout(..., 100))
Nested_then1(w, value) ==
    LET p == NextPromise(w)
    IN  Ret(SetTimeout(AllocPromise(w), FnP("nested.timeout", p), 100), Ref(p))

\* val => expect(isEqual(new Set([1, 2]), results)).toBeTruthy()
Nested_then2(w, val) ==
    IF w.env.results = {1, 2} THEN Ret(Expect(w, TRUE), Undefined)
    ELSE Throw(Expect(w, FALSE), ExpectFailed)

----------------------------------------------------------------------------
(* test "callbacks"                                                        *)

\* let eqSets = (set1, set2) => ...   `!set1 instanceof Set` is
\* `(!set1) instanceof Set`: the instanceof test is made on a boolean.
\* v.size is the number of elements of a Set, a TypeError on undefined and
\* null, and undefined on the other values (on numbers and undefined !=
\* is !==); for...of throws a TypeError on a value that is not iterable;
\* v.has is a function on a Set only, where it compares by SameValueZero.
eqSets(set1, set2) ==
    LET instanceofSet(v) == Kind(v) = "Set"
        size(v) == IF Kind(v) = "Set"
                   THEN [threw |-> FALSE, value |-> Num(Len(v[2]))]
                   ELSE GetProperty(v, "size")
        iterable(v) == Kind(v) \in {"Set", "array"}
        has(v, a) == \E k \in 1..Len(v[2]) : v[2][k] = a
        size1 == size(set1)
        size2 == size(set2)
    IN  IF instanceofSet(Bool(~Truthy(set1)))
        THEN [threw |-> TRUE, value |-> Err("TypeError", "set1 is not a Set")]
        ELSE IF instanceofSet(Bool(~Truthy(set2)))
        THEN [threw |-> TRUE, value |-> Err("TypeError", "set2 is not a Set")]
        ELSE IF size1.threw THEN size1
        ELSE IF size2.threw THEN size2
        ELSE IF ~StrictEq(size1.value, size2.value)
        THEN [threw |-> FALSE, value |-> Bool(FALSE)]
        ELSE IF ~iterable(set1)
        THEN [threw |-> TRUE,
              value |-> Err("TypeError", "set1 is not iterable")]
        ELSE IF set1[2] = <<>>
        THEN [threw |-> FALSE, value |-> Bool(TRUE)]
        ELSE IF ~instanceofSet(set2)
        THEN [threw |-> TRUE,
              value |-> Err("TypeError", "set2.has is not a function")]
        ELSE [threw |-> FALSE,
              value |-> Bool(\A k \in 1..Len(set1[2]) : has(set2, set1[2][k]))]

\* mutant: complete() reports the end of the test at every completion
Callbacks_complete_Eager(w, completed) ==
    LET had == \E k \in 1..Len(w.env.completions[2]) :
                   w.env.completions[2][k] = completed
        w1 == IF had THEN w
              ELSE [w EXCEPT !.env.completions[2] = Append(@, completed)]
    IN  Ret([w1 EXCEPT !.env.doneCalls = @ + 1], Undefined)

\* let complete = (completed) => { completions.add(completed);
\*                                 if (eqSets(expected, completions)) done() }
Callbacks_complete(w, completed) ==
    LET had == \E k \in 1..Len(w.env.completions[2]) :
                   w.env.completions[2][k] = completed
        w1 == IF had THEN w
              ELSE [w EXCEPT !.env.completions[2] = Append(@, completed)]
        eq == eqSets(w1.env.expected, w1.env.completions)
    IN  IF eq.threw THEN Throw(w1, eq.value)
        ELSE IF Truthy(eq.value)
        THEN Ret([w1 EXCEPT !.env.doneCalls = @ + 1], Undefined)
        ELSE Ret(w1, Undefined)

\* (a, b) => { expect(a).toBe(10); expect(b).toBe(bExpected);
\*             complete(completed) }, the callback given to setImmediate
\* (bExpected = 100, "immediate") and to setTimeout (20, "timeout")
Callbacks_callback(w, a, b, bExpected, completed) ==
    LET okA == StrictEq(a, Num(10))
        okB == StrictEq(b, Num(bExpected))
    IN  IF ~okA THEN Throw(Expect(w, okA), ExpectFailed)
        ELSE IF ~okB THEN Throw(Expect(Expect(w, okA), okB), ExpectFailed)
        ELSE Callbacks_complete(Expect(Expect(w, okA), okB), completed)

----------------------------------------------------------------------------
(* test "rxjs-multicast".  An observer is the number of its subscription: *)
(* 1 pushes to resultsFirst and completes as "one", 2 pushes to            *)
(* resultsSecond and completes as "two".  What subscribe() hands to the    *)
(* subscriber function is an RxJS Subscriber: once it has completed or has *)
(* been unsubscribed it is stopped, it passes nothing on any more, and     *)
(* completing it runs the teardown the subscriber function returned.  An   *)
(* exception thrown by an observer's handler is reported by RxJS on a      *)
(* later turn and does not reach the caller.                               *)

\* clearTimeout(id); the handle of a sequence timer is kept in its closure
ClearTimeout(w, id) ==
    [w EXCEPT !.timers = SelectSeq(@, LAMBDA t :
                  ~(t.cb.fn = "multicast.tick" /\ t.cb.p = id))]

\* function doSequence(observer, arr, idx): the timer of element idx, and
\* the handle setTimeout returned
doSequence(w, idx) ==
    LET id == w.env.timeouts + 1
    IN  [w |-> SetTimeout([w EXCEPT !.env.timeouts = id],
                          FnPI("multicast.tick", id, idx), 1000),
         id |-> id]

\* mutant: only the first observer of the list is notified
Multicast_next_FirstOnly(w, val) ==
    LET gets(o) == /\ w.env.observers # <<>> /\ w.env.observers[1] = o
                   /\ o \notin w.env.stopped
    IN  [w EXCEPT !.env.resultsFirst = IF gets(1) THEN Append(@, val) ELSE @,
                  !.env.resultsSecond = IF gets(2) THEN Append(@, val) ELSE @]

\* next(val) { observers.forEach(obs => obs.next(val)) } with the next()
\* handlers of the two observers: resultsFirst.push(num),
\* resultsSecond.push(num)
Multicast_next(w, val) ==
    LET gets(o) == /\ \E k \in 1..Len(w.env.observers) : w.env.observers[k] = o
                   /\ o \notin w.env.stopped
    IN  [w EXCEPT !.env.resultsFirst = IF gets(1) THEN Append(@, val) ELSE @,
                  !.env.resultsSecond = IF gets(2) THEN Append(@, val) ELSE @]

\* unsubscribe() { observers.splice(observers.indexOf(observer), 1);
\*                 if (observers.length === 0) clearTimeout(timeoutId) }
\* indexOf is -1 for an observer not in the list, and splice counts a
\* negative start from the end of the list
Multicast_unsubscribe(w, o) ==
    LET obs == w.env.observers
        found == {k \in 1..Len(obs) : obs[k] = o}
        indexOf == IF found = {} THEN -1
                   ELSE (CHOOSE k \in found : \A j \in found : k <= j) - 1
        start == IF indexOf < 0
                 THEN (IF Len(obs) + indexOf < 0 THEN 0 ELSE Len(obs) + indexOf)
                 ELSE indexOf
        left == IF start < Len(obs)
                THEN SubSeq(obs, 1, start) \o SubSeq(obs, start + 2, Len(obs))
                ELSE obs
        w1 == [w EXCEPT !.env.observers = left]
    IN  IF Len(left) = 0 THEN ClearTimeout(w1, w1.env.timeoutId) ELSE w1

\* obs.complete() on the Subscriber of observer o: the observer's
\* complete() handler (its expectation, then completeTest(sub)), then the
\* teardown
Subscriber_complete(w, o) ==
    IF o \in w.env.stopped THEN w
    ELSE LET w1 == [w EXCEPT !.env.stopped = @ \cup {o}]
             ok == IF o = 1
                   THEN ArrEq(<<Num(1), Num(2), Num(3)>>, w1.env.resultsFirst)
                   ELSE ArrEq(<<Num(2), Num(3)>>, w1.env.resultsSecond)
             w2 == Expect(w1, ok)
             w3 == [w2 EXCEPT !.env.completed =
                                 Append(@, IF o = 1 THEN "one" ELSE "two")]
             w4 == IF Len(w3.env.completed) = 2
                   THEN [w3 EXCEPT !.env.doneCalls = @ + 1] ELSE w3
         IN  Multicast_unsubscribe(IF ok THEN w4 ELSE w2, o)

RECURSIVE Multicast_complete(_, _)
\* complete() { observers.slice(0).forEach(obs => obs.complete()) }, obs the
\* copy of the list that slice(0) made
Multicast_complete(w, obs) ==
    IF obs = <<>> THEN w
    ELSE Multicast_complete(Subscriber_complete(w, Head(obs)), Tail(obs))

\* the callback doSequence gives to setTimeout
Multicast_tick(w, idx) ==
    LET w1 == Multicast_next(w, Num(w.env.seq[idx + 1]))
    IN  IF idx = Len(w.env.seq) - 1
        THEN Multicast_complete(w1, w1.env.observers)
        ELSE doSequence(w1, idx + 1).w

\* the function multicastSequenceSubscriber() returns, called by
\* subscribe() with the Subscriber of observer o
Multicast_subscriber(w, o) ==
    LET w1 == [w EXCEPT !.env.observers = Append(@, o)]
    IN  IF Len(w1.env.observers) = 1
        THEN LET t == doSequence(w1, 0)
             IN  [t.w EXCEPT !.env.timeoutId = t.id]
        ELSE w1

----------------------------------------------------------------------------
(* class Person and class Teacher (src/src/model).                         *)

\* mutant: the constructor checks only that a name was given
Person_constructor_NoTypeCheck(w, name) ==
    IF Typeof(name) = "undefined"
    THEN Throw(w, Err("Error", "name is required"))
    ELSE Ret(w, Obj([name |-> name, createdDate |-> Str(NatToString(w.now))]))

\* Person's constructor(name); Date() is the text of the clock
Person_constructor(w, name) ==
    IF Typeof(name) = "undefined"
    THEN Throw(w, Err("Error", "name is required"))
    ELSE IF Typeof(name) # "string"
    THEN Throw(w, Err("Error", "name must be a string"))
    ELSE Ret(w, Obj([name |-> name, createdDate |-> Str(NatToString(w.now))]))

\* Teacher's constructor(name, subject, students)
Teacher_constructor(w, name, subject, students) ==
    LET super == Person_constructor(w, name)
    IN  IF super.threw THEN super
        ELSE Ret(super.w,
                 Obj([name |-> super.value[2].name,
                      createdDate |-> super.value[2].createdDate,
                      subject |-> subject, students |-> students]))

----------------------------------------------------------------------------
(* The this tests (src/src/__tests__/3-environment/this.test.js): objects *)
(* are compared by identity, which is their id here.                       *)

\* obj1 = { a: 2 }, obj2 = { a: 3 }, and objects without properties
ThisObj(id) ==
    CASE id = 1 -> Obj([id |-> 1, a |-> Num(2)])
      [] id = 2 -> Obj([id |-> 2, a |-> Num(3)])
      [] OTHER -> Obj([id |-> id])

\* mutant: a plain call gets the global object, as outside strict mode
ThisBinding_Sloppy(f, form, thisArg, newObj) ==
    LET callThis == CASE form = "plain" -> ThisObj(0)
                      [] form \in {"method", "call", "apply"} -> thisArg
                      [] form = "new" -> newObj
    IN  IF f[2].kind \in {"arrow", "bound"} THEN f[2].this ELSE callThis

\* mutant: call() and apply() rebind a bound function
ThisBinding_Rebind(f, form, thisArg, newObj) ==
    LET callThis == CASE form = "plain" -> Undefined
                      [] form \in {"method", "call", "apply"} -> thisArg
                      [] form = "new" -> newObj
    IN  IF f[2].kind = "arrow" THEN f[2].this
        ELSE IF f[2].kind = "bound" /\ form \notin {"call", "apply"}
        THEN f[2].this
        ELSE callThis

\* mutant: an arrow function gets its this from the call, as a function does
ThisBinding_ArrowDynamic(f, form, thisArg, newObj) ==
    LET callThis == CASE form = "plain" -> Undefined
                      [] form \in {"method", "call", "apply"} -> thisArg
                      [] form = "new" -> newObj
    IN  IF f[2].kind = "bound" THEN f[2].this ELSE callThis

\* the this of one invocation of f in strict mode.  form is the form of the
\* call: f() "plain", thisArg.f() "method", new f() "new", f.call(thisArg)
\* "call", f.apply(thisArg) "apply"
ThisBinding(f, form, thisArg, newObj) ==
    LET callThis == CASE form = "plain" -> Undefined
                      [] form \in {"method", "call", "apply"} -> thisArg
                      [] form = "new" -> newObj
    IN  IF f[2].kind \in {"arrow", "bound"} THEN f[2].this ELSE callThis

\* s.toLocaleUpperCase(), for the names the tests give a Person
ToLocaleUpperCase(s) ==
    CASE s \in {"test", "TEST"} -> "TEST"
      [] s \in {"damon", "DAMON"} -> "DAMON"
      [] s \in {"cole", "COLE"} -> "COLE"
      [] s = "" -> ""

\* s.toLocaleLowerCase(), for the same names
ToLocaleLowerCase(s) ==
    CASE s \in {"test", "TEST"} -> "test"
      [] s \in {"damon", "DAMON"} -> "damon"
      [] s \in {"cole", "COLE"} -> "cole"
      [] s = "" -> ""

\* mutant: the getter gives undefined when there is no name
Person_capitalizedName_Lenient(w, this) ==
    LET name == GetProperty(this, "name")
    IN  IF name.threw THEN Throw(w, name.value)
        ELSE IF Kind(name.value) # "string" THEN Ret(w, Undefined)
        ELSE Ret(w, Str(ToLocaleUpperCase(name.value[2])))

\* get capitalizedName() { return this.name.toLocaleUpperCase() }
Person_capitalizedName(w, this) ==
    LET name == GetProperty(this, "name")
    IN  IF name.threw THEN Throw(w, name.value)
        ELSE IF Kind(name.value) \in {"undefined", "null"}
        THEN Throw(w, Err("TypeError", "Cannot read properties of "
                                           \o Kind(name.value)))
        ELSE IF Kind(name.value) # "string"
        THEN Throw(w, Err("TypeError", "toLocaleUpperCase is not a function"))
        ELSE Ret(w, Str(ToLocaleUpperCase(name.value[2])))

\* set capitalizedName(value) { this.name = value.toLocaleLowerCase() } ;
\* this is the object after the call
Person_set_capitalizedName(w, this, value) ==
    IF Kind(value) \in {"undefined", "null"}
    THEN [w |-> w, threw |-> TRUE, this |-> this,
          value |-> Err("TypeError", "Cannot read properties of "
                                         \o Kind(value))]
    ELSE IF Kind(value) # "string"
    THEN [w |-> w, threw |-> TRUE, this |-> this,
          value |-> Err("TypeError", "toLocaleLowerCase is not a function")]
    ELSE LET props == this[2]
             name == Str(ToLocaleLowerCase(value[2]))
         IN  [w |-> w, threw |-> FALSE, value |-> Undefined,
              this |-> Obj([k \in DOMAIN props \cup {"name"} |->
                               IF k = "name" THEN name ELSE props[k]])]

\* toString() { this.lastUpdated = Date(); return `${this.name} was created
\* on ${this.createdDate}. Last updated ${this.lastUpdated}` } ; this is the
\* object after the call
Person_toString(w, this) ==
    LET props == this[2]
        lastUpdated == Str(NatToString(w.now))
        after == Obj([k \in DOMAIN props \cup {"lastUpdated"} |->
                         IF k = "lastUpdated" THEN lastUpdated ELSE props[k]])
    IN  [w |-> w, threw |-> FALSE, this |-> after,
         value |-> Str(TemplateString(GetProperty(after, "name").value)
                       \o " was created on "
                       \o TemplateString(GetProperty(after, "createdDate").value)
                       \o ". Last updated "
                       \o TemplateString(lastUpdated))]

\* Teacher's toString() { return `${this.name} :: ${super.toString()} with
\* ${this.students.length} students.` }
Teacher_toString(w, this) ==
    LET name == GetProperty(this, "name").value
        super == Person_toString(w, this)
        students == GetProperty(super.this, "students").value
    IN  IF Kind(students) \in {"undefined", "null"}
        THEN [w |-> super.w, threw |-> TRUE, this |-> super.this,
              value |-> Err("TypeError", "Cannot read properties of "
                                             \o Kind(students))]
        ELSE [w |-> super.w, threw |-> FALSE, this |-> super.this,
              value |-> Str(TemplateString(name) \o " :: " \o super.value[2]
                            \o " with "
                            \o TemplateString(Num(Len(students[2])))
                            \o " students.")]

----------------------------------------------------------------------------
(* Arrays (test "sparse arrays").  An array is its elements, a function   *)
(* from the indices that have been assigned, its other properties in the   *)
(* order they were added, and its length.                                  *)

\* the array index a property key stands for, -1 if it is not an index: a
\* number key is converted to its string, and a string is an index when it
\* is the decimal form of a natural number
ArrayIndex(key) ==
    LET name == TemplateString(key)
    IN  IF \E n \in 0..MaxIndex : NatToString(n) = name
        THEN CHOOSE n \in 0..MaxIndex : NatToString(n) = name
        ELSE -1

\* mutant: length counts the elements that have been assigned
ArraySet_DenseLength(arr, key, v) ==
    LET n == ArrayIndex(key)
        elements == [k \in DOMAIN arr.elements \cup {n} |->
                        IF k = n THEN v ELSE arr.elements[k]]
    IN  IF n >= 0
        THEN [arr EXCEPT !.elements = elements,
                         !.length = Cardinality(DOMAIN elements)]
        ELSE [arr EXCEPT !.properties = Append(@, [key |-> key[2], value |-> v])]

\* arr[key] = v
ArraySet(arr, key, v) ==
    LET n == ArrayIndex(key)
        had == {k \in 1..Len(arr.properties) : arr.properties[k].key = key[2]}
    IN  IF n >= 0
        THEN [arr EXCEPT !.elements = [k \in DOMAIN @ \cup {n} |->
                                          IF k = n THEN v ELSE @[k]],
                         !.length = IF n >= @ THEN n + 1 ELSE @]
        ELSE IF had # {}
        THEN [arr EXCEPT !.properties =
                 [k \in 1..Len(@) |-> IF k \in had THEN [@[k] EXCEPT !.value = v]
                                      ELSE @[k]]]
        ELSE [arr EXCEPT !.properties = Append(@, [key |-> key[2], value |-> v])]

\* arr[key]
ArrayGet(arr, key) ==
    LET n == ArrayIndex(key)
    IN  IF n >= 0
        THEN IF n \in DOMAIN arr.elements THEN arr.elements[n] ELSE Undefined
        ELSE IF \E k \in 1..Len(arr.properties) : arr.properties[k].key = key[2]
        THEN arr.properties[CHOOSE k \in 1..Len(arr.properties) :
                                arr.properties[k].key = key[2]].value
        ELSE Undefined

\* the keys for (let i in arr) visits: the indices that hold an element, in
\* ascending order, then the other properties in the order they were added
ForIn(arr) ==
    LET RECURSIVE Ascending(_)
        Ascending(S) ==
            IF S = {} THEN <<>>
            ELSE LET m == CHOOSE m \in S : \A k \in S : m <= k
                 IN  <<NatToString(m)>> \o Ascending(S \ {m})
    IN  Ascending(DOMAIN arr.elements)
            \o [k \in 1..Len(arr.properties) |-> arr.properties[k].key]

----------------------------------------------------------------------------
(* Numbers and equality (tests "NaN" and "object-equality").              *)

\* Number(v), and the conversion the arithmetic and == operators apply; a
\* string of decimal digits is read as ArrayIndex reads it
ToNumber(v) ==
    CASE Kind(v) \in {"number", "NaN"} -> v
      [] Kind(v) = "undefined" -> NaN
      [] Kind(v) = "null" -> Num(0)
      [] Kind(v) = "boolean" -> IF v[2] THEN Num(1) ELSE Num(0)
      [] Kind(v) = "string" ->
            IF v[2] = "" THEN Num(0)
            ELSE IF ArrayIndex(v) >= 0 THEN Num(ArrayIndex(v))
            ELSE NaN
      [] OTHER -> NaN

\* a / b, for operands whose quotient is NaN or an integer
Divide(a, b) ==
    LET x == ToNumber(a)
        y == ToNumber(b)
    IN  IF Kind(x) = "NaN" \/ Kind(y) = "NaN" THEN NaN
        ELSE IF x[2] = 0 /\ y[2] = 0 THEN NaN
        ELSE Num(x[2] \div y[2])

RECURSIVE LooseEq(_, _)
\* a == b on primitive values
LooseEq(a, b) ==
    LET type(v) == IF Kind(v) = "NaN" THEN "number" ELSE Kind(v)
    IN  IF type(a) = type(b) THEN StrictEq(a, b)
        ELSE IF {type(a), type(b)} = {"undefined", "null"} THEN TRUE
        ELSE IF {type(a), type(b)} = {"number", "string"}
        THEN StrictEq(ToNumber(a), ToNumber(b))
        ELSE IF type(a) = "boolean" THEN LooseEq(ToNumber(a), b)
        ELSE IF type(b) = "boolean" THEN LooseEq(a, ToNumber(b))
        ELSE FALSE

\* Object.is(a, b) on primitive values
ObjectIs(a, b) == Kind(a) = Kind(b) /\ a[2] = b[2]

----------------------------------------------------------------------------
(* Fizz-buzz (src/unnamed/part_010).                                      *)

\* the largest i of the loops: for (let i = 1; i <= 100; i++)
FizzBuzzLimit == 100

\* function prove(i)
prove(i) ==
    LET msg0 == Str("")
        msg1 == IF i % 3 = 0 THEN Str(msg0[2] \o "fizz") ELSE msg0
        msg2 == IF i % 5 = 0 THEN Str(msg1[2] \o "buzz") ELSE msg1
    IN  IF Truthy(msg2) THEN msg2 ELSE Str(NatToString(i))

\* mutant: the flag by3 is tested before by3 && by5
FirstTry_By3First(i) ==
    LET by3 == i % 3 = 0
        by5 == i % 5 = 0
    IN  IF by3 THEN Str("fizz")
        ELSE IF by5 THEN Str("buzz")
        ELSE IF by3 /\ by5 THEN Str("fizzbuzz")
        ELSE Str(NatToString(i))

\* the result of one turn of the loop of "fizz-buzz-first-try"
FirstTry(i) ==
    LET by3 == i % 3 = 0
        by5 == i % 5 = 0
    IN  IF by3 /\ by5 THEN Str("fizzbuzz")
        ELSE IF by5 THEN Str("buzz")
        ELSE IF by3 THEN Str("fizz")
        ELSE Str(NatToString(i))

\* the result of one turn of the loop of "fizz-buzz-second-try"
SecondTry(i) ==
    IF i % 15 = 0 THEN Str("fizzbuzz")
    ELSE IF i % 5 = 0 THEN Str("buzz")
    ELSE IF i % 3 = 0 THEN Str("fizz")
    ELSE Str(NatToString(i))

\* msg || `${i}` of one turn of the loop of "fizz-buzz-third-try", which
\* msg enters as ""
ThirdTry(i) ==
    LET msg0 == Str("")
        msg1 == IF i % 3 = 0 THEN Str(msg0[2] \o "fizz") ELSE msg0
        msg2 == IF i % 5 = 0 THEN Str(msg1[2] \o "buzz") ELSE msg1
    IN  IF Truthy(msg2) THEN msg2 ELSE Str(NatToString(i))

----------------------------------------------------------------------------
(* test "proxies-basic".  The proxy is the value <<"proxy", "">>, its      *)
(* target is env.f and its handler is logger.                              *)

\* logger.get(obj, prop), the get trap
Logger_get(w, obj, prop) ==
    LET w1 == IF prop = "name" THEN [w EXCEPT !.env.accesses = @ + 1] ELSE w
    IN  Ret(w1, GetProperty(obj, prop).value)

\* mutant: echo() reads the name of the target, not of its this
Foo_echo_OfTarget(w, this) == Ret(w, GetProperty(w.env.f, "name").value)

\* echo() { return this.name }: a read through the proxy when this is the
\* proxy
Foo_echo(w, this) ==
    IF Kind(this) = "proxy" THEN Logger_get(w, w.env.f, "name")
    ELSE Ret(w, GetProperty(this, "name").value)

----------------------------------------------------------------------------
(* test "default parameter expressions"                                   *)

\* function getValue() { val = val + 1; return val }
getValue(w) ==
    LET w1 == [w EXCEPT !.env.val = @ + 1]
    IN  Ret(w1, Num(w1.env.val))

\* mutant: the default expression is evaluated in every call
func_Eager(w, arg1, arg2) ==
    LET d == getValue(w)
    IN  IF Kind(arg2) = "undefined" THEN d ELSE Ret(d.w, arg2)

\* const func = (arg1, arg2 = getValue()) => arg2; an omitted argument is
\* undefined
func(w, arg1, arg2) ==
    IF Kind(arg2) = "undefined" THEN getValue(w) ELSE Ret(w, arg2)

----------------------------------------------------------------------------
(* test "string templates": the two tag functions.  The literal strings   *)
(* are a sequence of strings, the substitutions a sequence of values.      *)

\* function echoTag(literals, ...substitutions)
echoTag(literals, substitutions) ==
    LET RECURSIVE loop(_, _)
        loop(i, result) ==
            IF i < Len(substitutions)
            THEN loop(i + 1, result \o literals[i + 1]
                                    \o TemplateString(substitutions[i + 1]))
            ELSE result
    IN  loop(0, "") \o literals[Len(literals)]

\* mutant: the callback puts the substitution after the string
echoReduce_ValueAfter(strings, values) ==
    LET RECURSIVE reduce(_, _)
        reduce(idx, fullStr) ==
            IF idx < Len(strings)
            THEN reduce(idx + 1,
                        fullStr \o strings[idx + 1]
                                \o (IF idx > 0 THEN TemplateString(values[idx])
                                    ELSE ""))
            ELSE fullStr
    IN  reduce(1, strings[1])

\* function echoReduce(strings, ...values): reduce without an initial value
\* starts from strings[0] and calls the callback from idx = 1
echoReduce(strings, values) ==
    LET RECURSIVE reduce(_, _)
        reduce(idx, fullStr) ==
            IF idx < Len(strings)
            THEN reduce(idx + 1,
                        fullStr \o (IF idx > 0 THEN TemplateString(values[idx])
                                    ELSE "")
                                \o strings[idx + 1])
            ELSE fullStr
    IN  reduce(1, strings[1])

----------------------------------------------------------------------------
(* test "switch"                                                           *)

\* switch (a) { case "damon": case "cole": case "test": val = "test";
\* return; } : the labels fall through to one body, which ends the test
\* function; returned tells that it did
Switch_statement(w, a) ==
    IF a \in {Str("damon"), Str("cole"), Str("test")}
    THEN [w |-> [w EXCEPT !.env.val = Str("test")], returned |-> TRUE]
    ELSE [w |-> w, returned |-> FALSE]

----------------------------------------------------------------------------
(* test "custom-iterable"                                                  *)
(* env.returns is the history of what next() returned.                     *)

\* mutant: next() starts over once it has reported the end
PairIterator_next_Restart(w) ==
    LET pos == w.env.currentPos + 1
        res == IF pos = 1 THEN [value |-> w.env.left, done |-> FALSE]
               ELSE IF pos = 2 THEN [value |-> w.env.right, done |-> FALSE]
               ELSE [value |-> Undefined, done |-> TRUE]
    IN  [w |-> [w EXCEPT !.env.currentPos = IF pos > 2 THEN 0 ELSE pos,
                         !.env.returns = Append(@, res)],
         result |-> res]

\* next() { this.currentPos++; if (this.currentPos == 1) return { value:
\* this.left, done: false }; else if (this.currentPos == 2) return { value:
\* this.right, done: false }; return { done: true } }
PairIterator_next(w) ==
    LET pos == w.env.currentPos + 1
        res == IF pos = 1 THEN [value |-> w.env.left, done |-> FALSE]
               ELSE IF pos = 2 THEN [value |-> w.env.right, done |-> FALSE]
               ELSE [value |-> Undefined, done |-> TRUE]
    IN  [w |-> [w EXCEPT !.env.currentPos = pos,
                         !.env.returns = Append(@, res)],
         result |-> res]

RECURSIVE PairIterator_forOf(_, _)
\* for (let val of pairIterator) { results.push(val) } : [Symbol.iterator]()
\* returns the object itself, and next() is called until a result is done
PairIterator_forOf(w, results) ==
    LET r == PairIterator_next(w)
    IN  IF r.result.done THEN [w |-> r.w, results |-> results]
        ELSE PairIterator_forOf(r.w, Append(results, r.result.value))

----------------------------------------------------------------------------
(* Calling a closure.                                                      *)

Call(h, arg, w) ==
    CASE h.fn = "Promise.all resolve element" ->
            Ret(AllResolveElement(w, h.p, h.i, arg), Undefined)
      [] h.fn = "Promise.all reject" -> Ret(RejectFn(w, h.p, arg), Undefined)
      [] h.fn = "adopt fulfill" -> Ret(FulfillPromise(w, h.p, arg), Undefined)
      [] h.fn = "adopt reject" -> Ret(RejectPromise(w, h.p, arg), Undefined)
      [] h.fn = "chaining.timeout" -> Chaining_timeout(w, h.p)
      [] h.fn = "chaining.then1" -> Chaining_then1(w, arg)
      [] h.fn = "chaining.then2" -> Chaining_then2(w, arg)
      [] h.fn = "chaining.then3" -> Chaining_then3(w, arg)
      [] h.fn = "chaining.thenCheck" -> Chaining_thenCheck(w, arg)
      [] h.fn = "settled.then1" -> Settled_then1(w, arg)
      [] h.fn = "settled.then2" -> Settled_then2(w, arg)
      [] h.fn = "settleOnce.timeout" ->
            Ret(SettleOnce_attempt(w, h.p, h.i), Undefined)
      [] h.fn = "settleOnce.onFulfilled" ->
            SettleOnce_subscriber(w, h.i, "fulfilled", arg)
      [] h.fn = "settleOnce.onRejected" ->
            SettleOnce_subscriber(w, h.i, "rejected", arg)
      [] h.fn = "gating.timeout" -> Gating_timeout(w, h.p, h.i)
      [] h.fn = "gating.then" -> Gating_then(w, h.p, arg)
      [] h.fn = "gating.catch" -> Gating_catch(w, h.p, arg)
      [] h.fn = "reject.then" -> Reject_then(w, arg)
      [] h.fn = "reject.catch" -> Reject_catch(w, arg)
      [] h.fn = "errorInThen.then1" -> ErrorInThen_then1(w, arg)
      [] h.fn = "errorInThen.then2" -> ErrorInThen_then2(w, arg)
      [] h.fn = "errorInThen.catch" -> ErrorInThen_catch(w, arg)
      [] h.fn = "nested.timeout" -> Nested_timeout(w, h.p)
      [] h.fn = "nested.then1" -> Nested_then1(w, arg)
      [] h.fn = "nested.then2" -> Nested_then2(w, arg)
      [] h.fn = "callbacks.immediate" ->
            Callbacks_callback(w, Num(h.p), Num(h.i), 100, Str("immediate"))
      [] h.fn = "callbacks.timeout" ->
            Callbacks_callback(w, Num(h.p), Num(h.i), 20, Str("timeout"))
      [] h.fn = "multicast.tick" -> Ret(Multicast_tick(w, h.i), Undefined)
      [] h.fn = "multicast.later" -> Ret(Multicast_subscriber(w, 2), Undefined)

\* mutant: an exception thrown by the handler is dropped
RunReaction_IgnoreThrow(w, job) ==
    IF job.handler = NoHandler
    THEN IF job.type = "fulfilled" THEN ResolveFn(w, job.derived, job.arg)
         ELSE RejectFn(w, job.derived, job.arg)
    ELSE LET r == Call(job.handler, job.arg, w)
         IN  ResolveFn(r.w, job.derived, IF r.threw THEN Undefined ELSE r.value)

\* a promise reaction job: call the handler, settle the derived promise
RunReaction(w, job) ==
    IF job.handler = NoHandler
    THEN IF job.type = "fulfilled" THEN ResolveFn(w, job.derived, job.arg)
         ELSE RejectFn(w, job.derived, job.arg)
    ELSE LET r == Call(job.handler, job.arg, w)
         IN  IF r.threw THEN RejectFn(r.w, job.derived, r.value)
             ELSE ResolveFn(r.w, job.derived, r.value)

\* a promise resolve thenable job: p adopts the state of the promise t
RunThenable(w, job) ==
    Then(w, job.thenable, FnP("adopt fulfill", job.derived),
         FnP("adopt reject", job.derived))

RunJob(w, job) ==
    IF job.kind = "reaction" THEN RunReaction(w, job) ELSE RunThenable(w, job)

\* the index of the timer that fires next: earliest due, first registered
NextTimer ==
    CHOOSE k \in 1..Len(timers) :
        /\ \A j \in 1..Len(timers) : timers[k].due <= timers[j].due
        /\ \A j \in 1..(k - 1) : timers[j].due > timers[k].due

RemoveAt(s, k) == SubSeq(s, 1, k - 1) \o SubSeq(s, k + 1, Len(s))

----------------------------------------------------------------------------
(* The event loop.                                                         *)

\* one microtask: the head of the job queue runs to completion
RunMicrotask ==
    /\ pc = "done"
    /\ jobs # <<>>
    /\ Apply(RunJob([World EXCEPT !.jobs = Tail(jobs)], Head(jobs)))
    /\ UNCHANGED <<test, inp, pc>>

\* one timer callback, only when no microtask is pending
FireTimer ==
    /\ pc = "done"
    /\ jobs = <<>>
    /\ timers # <<>>
    /\ LET k == NextTimer
           w == [World EXCEPT !.timers = RemoveAt(timers, k),
                              !.now = timers[k].due]
       IN  Apply(Call(timers[k].cb, Undefined, w).w)
    /\ UNCHANGED <<test, inp, pc>>

----------------------------------------------------------------------------
(* The synchronous body of test "promises-chaining".                       *)

\* var promise = new Promise(executor)
ChainingConstruct ==
    /\ test = "promises-chaining" /\ pc = "construct"
    /\ LET p == NextPromise(World)
           w == Chaining_executor(AllocPromise(World), p)
       IN  Apply([w EXCEPT !.env.promise = p])
    /\ pc' = "attach chain"
    /\ UNCHANGED <<test, inp>>

\* promise.then(...).then(...).then(...)
ChainingAttachChain ==
    /\ test = "promises-chaining" /\ pc = "attach chain"
    /\ LET d1 == NextPromise(World)
           w1 == Then(World, env.promise, Fn("chaining.then1"), NoHandler)
           d2 == NextPromise(w1)
           w2 == Then(w1, d1, Fn("chaining.then3"), NoHandler)
           w3 == Then(w2, d2, Fn("chaining.thenCheck"), NoHandler)
       IN  Apply(w3)
    /\ pc' = "attach second"
    /\ UNCHANGED <<test, inp>>

\* promise.then(...) ; return promise
ChainingAttachSecond ==
    /\ test = "promises-chaining" /\ pc = "attach second"
    /\ Apply(Then(World, env.promise, Fn("chaining.then2"), NoHandler))
    /\ pc' = "done"
    /\ UNCHANGED <<test, inp>>

----------------------------------------------------------------------------
(* The synchronous body of "promises-guaranteed-callback-on-settlement".   *)

\* let p = Promise.resolve(100); let called = false
SettledCreate ==
    /\ test = "promises-guaranteed-callback-on-settlement" /\ pc = "create"
    /\ LET p == NextPromise(World)
       IN  Apply([PromiseResolve(World, Num(100)) EXCEPT !.env.p = p])
    /\ pc' = "attach"
    /\ UNCHANGED <<test, inp>>

\* p.then(...).then(...); return p
SettledAttach ==
    /\ test = "promises-guaranteed-callback-on-settlement" /\ pc = "attach"
    /\ LET d1 == NextPromise(World)
           w1 == Then(World, env.p, Fn("settled.then1"), NoHandler)
       IN  Apply(Then(w1, d1, Fn("settled.then2"), NoHandler))
    /\ pc' = "done"
    /\ UNCHANGED <<test, inp>>

----------------------------------------------------------------------------
(* The synchronous body of the settle-once scenario.                       *)

\* let p = new Promise(executor)
SettleOnceConstruct ==
    /\ test = "settle-once" /\ pc = "construct"
    /\ LET p == NextPromise(World)
           w == SettleOnce_executor(AllocPromise(World), p)
       IN  Apply([w EXCEPT !.env.p = p])
    /\ pc' = "subscribe"
    /\ UNCHANGED <<test, inp>>

\* p.then(onFulfilled, onRejected), once per subscriber
SettleOnceSubscribe ==
    /\ test = "settle-once" /\ pc = "subscribe"
    /\ LET w1 == Then(World, env.p, FnPI("settleOnce.onFulfilled", 0, 1),
                      FnPI("settleOnce.onRejected", 0, 1))
       IN  Apply(Then(w1, env.p, FnPI("settleOnce.onFulfilled", 0, 2),
                      FnPI("settleOnce.onRejected", 0, 2)))
    /\ pc' = "done"
    /\ UNCHANGED <<test, inp>>

----------------------------------------------------------------------------
(* The synchronous body of test "promises-gating".                         *)

\* let p1 = new Promise(resolve => setTimeout(() => resolve(1), 50))
GatingP1 ==
    /\ test = "promises-gating" /\ pc = "p1"
    /\ LET p == NextPromise(World)
           w == Gating_executor(AllocPromise(World), p, 1, inp.d1)
       IN  Apply([w EXCEPT !.env.p1 = p])
    /\ pc' = "p2"
    /\ UNCHANGED <<test, inp>>

\* let p2 = new Promise(resolve => setTimeout(() => resolve(2), 10))
GatingP2 ==
    /\ test = "promises-gating" /\ pc = "p2"
    /\ LET p == NextPromise(World)
           w == Gating_executor(AllocPromise(World), p, 2, inp.d2)
       IN  Apply([w EXCEPT !.env.p2 = p])
    /\ pc' = "outer"
    /\ UNCHANGED <<test, inp>>

\* return new Promise((resolve, reject) => {
\*     let p3 = Promise.all([p1, p2]); p3.then(...).catch(...) })
GatingOuter ==
    /\ test = "promises-gating" /\ pc = "outer"
    /\ LET outer == NextPromise(World)
           w0 == AllocPromise(World)
           p3 == NextPromise(w0)
           w1 == PromiseAll(w0, <<env.p1, env.p2>>)
           d == NextPromise(w1)
           w2 == Then(w1, p3, FnP("gating.then", outer), NoHandler)
           w3 == Catch(w2, d, FnP("gating.catch", outer))
       IN  Apply([w3 EXCEPT !.env.p3 = p3, !.env.outer = outer])
    /\ pc' = "done"
    /\ UNCHANGED <<test, inp>>

----------------------------------------------------------------------------
(* The synchronous body of "multiple-promises-resolve-and-reject".         *)

\* let p1 = new Promise(resolve => { executedPromises.add("p1"); resolve("good") })
RejectP1 ==
    /\ test = "multiple-promises-resolve-and-reject" /\ pc = "p1"
    /\ LET p == NextPromise(World)
           w == Reject_executor1(AllocPromise(World), p)
       IN  Apply([w EXCEPT !.env.p1 = p])
    /\ pc' = "p2"
    /\ UNCHANGED <<test, inp>>

\* let p2 = new Promise((resolve, reject) => { ...; reject(new Error("bad")) })
RejectP2 ==
    /\ test = "multiple-promises-resolve-and-reject" /\ pc = "p2"
    /\ LET p == NextPromise(World)
           w == Reject_executor2(AllocPromise(World), p)
       IN  Apply([w EXCEPT !.env.p2 = p])
    /\ pc' = "all"
    /\ UNCHANGED <<test, inp>>

\* return Promise.all([p1, p2]).then(...).catch(...)
RejectAll ==
    /\ test = "multiple-promises-resolve-and-reject" /\ pc = "all"
    /\ LET a == NextPromise(World)
           w1 == PromiseAll(World, <<env.p1, env.p2>>)
           d == NextPromise(w1)
           w2 == Then(w1, a, Fn("reject.then"), NoHandler)
       IN  Apply([Catch(w2, d, Fn("reject.catch")) EXCEPT !.env.all = a])
    /\ pc' = "done"
    /\ UNCHANGED <<test, inp>>

----------------------------------------------------------------------------
(* The synchronous body of test "error-handling-within-then".              *)

\* let p = Promise.resolve("done")
ErrorInThenCreate ==
    /\ test = "error-handling-within-then" /\ pc = "create"
    /\ LET p == NextPromise(World)
       IN  Apply([PromiseResolve(World, Str("done")) EXCEPT !.env.p = p])
    /\ pc' = "attach"
    /\ UNCHANGED <<test, inp>>

\* p.then(...).then(...).catch(...); return p
ErrorInThenAttach ==
    /\ test = "error-handling-within-then" /\ pc = "attach"
    /\ LET d1 == NextPromise(World)
           w1 == Then(World, env.p, Fn("errorInThen.then1"), NoHandler)
           d2 == NextPromise(w1)
           w2 == Then(w1, d1, Fn("errorInThen.then2"), NoHandler)
       IN  Apply(Catch(w2, d2, Fn("errorInThen.catch")))
    /\ pc' = "done"
    /\ UNCHANGED <<test, inp>>

----------------------------------------------------------------------------
(* The synchronous body of test "nested-promise".                          *)

\* new Promise(resolve => { results.add(1); resolve(1) })
NestedConstruct ==
    /\ test = "nested-promise" /\ pc = "construct"
    /\ LET p == NextPromise(World)
           w == Nested_executor(AllocPromise(World), p)
       IN  Apply([w EXCEPT !.env.p = p])
    /\ pc' = "attach"
    /\ UNCHANGED <<test, inp>>

\* .then(value => new Promise(...)).then(val => expect(...))
NestedAttach ==
    /\ test = "nested-promise" /\ pc = "attach"
    /\ LET d1 == NextPromise(World)
           w1 == Then(World, env.p, Fn("nested.then1"), NoHandler)
       IN  Apply(Then(w1, d1, Fn("nested.then2"), NoHandler))
    /\ pc' = "done"
    /\ UNCHANGED <<test, inp>>

----------------------------------------------------------------------------
(* The body of test "generator-manual".                                    *)

\* activity.push("acquiring iterator")
ManualAcquiring ==
    /\ test = "generator-manual" /\ pc = "acquiring"
    /\ Apply([World EXCEPT !.env.activity = Append(@, "acquiring iterator")])
    /\ pc' = "acquire"
    /\ UNCHANGED <<test, inp>>

\* let it = gen(); activity.push("acquired iterator"); expect(...)
ManualAcquire ==
    /\ test = "generator-manual" /\ pc = "acquire"
    /\ LET it == NextGen(World)
           w1 == [AllocGen(World, "gen", [none |-> TRUE]) EXCEPT
                    !.env.it = it,
                    !.env.activity = Append(@, "acquired iterator")]
           ok == w1.env.activity = <<"acquiring iterator", "acquired iterator">>
       IN  /\ Apply(Expect(w1, ok))
           /\ pc' = IF ok THEN "first next" ELSE "failed"
    /\ UNCHANGED <<test, inp>>

\* const val = it.next(); expect(...) x 3; activity.push(`yielded ${val.value}`)
ManualFirstNext ==
    /\ test = "generator-manual" /\ pc = "first next"
    /\ LET r == GenNext(World, env.it, Undefined)
           w1 == [r.w EXCEPT !.env.val = [value |-> r.value, done |-> r.done]]
           oks == <<w1.env.activity = <<"acquiring iterator", "acquired iterator",
                                        "before yield">>,
                    StrictEq(r.value, Num(10)),
                    ~r.done>>
           w2 == ExpectAll(w1, oks)
       IN  IF r.threw THEN Apply(r.w) /\ pc' = "failed"
           ELSE IF AllOk(oks)
           THEN /\ Apply([w2 EXCEPT !.env.activity =
                            Append(@, "yielded " \o TemplateString(r.value))])
                /\ pc' = "set x"
           ELSE Apply(w2) /\ pc' = "failed"
    /\ UNCHANGED <<test, inp>>

\* x = 100; activity.push("resuming iterator")
ManualSetX ==
    /\ test = "generator-manual" /\ pc = "set x"
    /\ Apply([World EXCEPT !.env.x = 100,
                           !.env.activity = Append(@, "resuming iterator")])
    /\ pc' = "second next"
    /\ UNCHANGED <<test, inp>>

\* expect(it.next().done).toBeTruthy(); activity.push("done")
ManualSecondNext ==
    /\ test = "generator-manual" /\ pc = "second next"
    /\ LET r == GenNext(World, env.it, Undefined)
       IN  IF r.threw THEN Apply(r.w) /\ pc' = "failed"
           ELSE IF r.done
           THEN /\ Apply([Expect(r.w, TRUE) EXCEPT
                            !.env.activity = Append(@, "done")])
                /\ pc' = "check"
           ELSE Apply(Expect(r.w, FALSE)) /\ pc' = "failed"
    /\ UNCHANGED <<test, inp>>

\* expect(_.isEqual([...], activity)).toBeTruthy()
ManualCheck ==
    /\ test = "generator-manual" /\ pc = "check"
    /\ LET ok == env.activity =
                    <<"acquiring iterator", "acquired iterator", "before yield",
                      "yielded 10", "resuming iterator", "after yield", "done">>
       IN  Apply(Expect(World, ok)) /\ pc' = IF ok THEN "done" ELSE "failed"
    /\ UNCHANGED <<test, inp>>

----------------------------------------------------------------------------
(* The body of test "generator-iteration".                                 *)

\* let results = []; let iterator = repeat(double, 3)
IterStart ==
    /\ test = "generator-iteration" /\ pc = "start"
    /\ Apply([AllocGen(World, "repeat", [i |-> 0, times |-> 3]) EXCEPT
                !.env.iterator = NextGen(World)])
    /\ pc' = "loop1"
    /\ UNCHANGED <<test, inp>>

\* for (let val of iterator) { results.push(val) } : one turn of the loop
IterLoop1 ==
    /\ test = "generator-iteration" /\ pc = "loop1"
    /\ LET r == GenNext(World, env.iterator, Undefined)
       IN  IF r.done THEN Apply(r.w) /\ pc' = "check1"
           ELSE /\ Apply([r.w EXCEPT !.env.results = Append(@, r.value)])
                /\ pc' = "loop1"
    /\ UNCHANGED <<test, inp>>

\* expect(_.isEqual([0, 2, 4], results)); results = []; let r = repeat(double, 3)
IterCheck1 ==
    /\ test = "generator-iteration" /\ pc = "check1"
    /\ LET ok == ArrEq(<<Num(0), Num(2), Num(4)>>, env.results)
           w1 == Expect(World, ok)
       IN  IF ok
           THEN /\ Apply([AllocGen(w1, "repeat", [i |-> 0, times |-> 3]) EXCEPT
                            !.env.results = <<>>, !.env.r = NextGen(w1)])
                /\ pc' = "loop2"
           ELSE Apply(w1) /\ pc' = "failed"
    /\ UNCHANGED <<test, inp>>

\* for (let val; (val = r.next()) && !val.done;) { results.push(val.value) }
IterLoop2 ==
    /\ test = "generator-iteration" /\ pc = "loop2"
    /\ LET val == GenNext(World, env.r, Undefined)
       IN  IF val.done THEN Apply(val.w) /\ pc' = "check2"
           ELSE /\ Apply([val.w EXCEPT !.env.results = Append(@, val.value)])
                /\ pc' = "loop2"
    /\ UNCHANGED <<test, inp>>

\* expect(_.isEqual([0, 2, 4], results)); results = []; r = repeat(double, 10)
IterCheck2 ==
    /\ test = "generator-iteration" /\ pc = "check2"
    /\ LET ok == ArrEq(<<Num(0), Num(2), Num(4)>>, env.results)
           w1 == Expect(World, ok)
       IN  IF ok
           THEN /\ Apply([AllocGen(w1, "repeat", [i |-> 0, times |-> 10]) EXCEPT
                            !.env.results = <<>>, !.env.r = NextGen(w1)])
                /\ pc' = "loop3"
           ELSE Apply(w1) /\ pc' = "failed"
    /\ UNCHANGED <<test, inp>>

\* for (let val of r) { if (val >= 10) { r.return() } results.push(val) }
IterLoop3 ==
    /\ test = "generator-iteration" /\ pc = "loop3"
    /\ LET n == GenNext(World, env.r, Undefined)
           w1 == IF n.value[2] >= 10 THEN GenReturn(n.w, env.r, Undefined).w
                 ELSE n.w
       IN  IF n.done THEN Apply(n.w) /\ pc' = "check3"
           ELSE /\ Apply([w1 EXCEPT !.env.results = Append(@, n.value)])
                /\ pc' = "loop3"
    /\ UNCHANGED <<test, inp>>

\* expect(_.isEqual([0, 2, 4, 6, 8, 10], results)).toBeTruthy()
IterCheck3 ==
    /\ test = "generator-iteration" /\ pc = "check3"
    /\ LET ok == ArrEq(<<Num(0), Num(2), Num(4), Num(6), Num(8), Num(10)>>,
                       env.results)
       IN  Apply(Expect(World, ok)) /\ pc' = IF ok THEN "done" ELSE "failed"
    /\ UNCHANGED <<test, inp>>

----------------------------------------------------------------------------
(* The body of test "generator-providing-values-to-yield".                 *)

\* let a = addWhileLessThanX(5)
ProvidingCreate ==
    /\ test = "generator-providing-values-to-yield" /\ pc = "create"
    /\ Apply([AllocGen(World, "addWhileLessThanX",
                       [x |-> inp.x, sum |-> 0, val |-> Undefined]) EXCEPT
                !.env.a = NextGen(World)])
    /\ pc' = "prime"
    /\ UNCHANGED <<test, inp>>

\* expect(a.next().value).toBe("begin")
ProvidingPrime ==
    /\ test = "generator-providing-values-to-yield" /\ pc = "prime"
    /\ LET r == GenNext(World, env.a, Undefined)
           ok == StrictEq(r.value, Str("begin"))
       IN  /\ Apply([Expect(r.w, ok) EXCEPT
                       !.env.res = [value |-> r.value, done |-> r.done]])
           /\ pc' = IF ok THEN "loop" ELSE "failed"
    /\ UNCHANGED <<test, inp>>

\* one turn of: for (let i = 0; i <= 100; i++) { let res = a.next(i); ... }
ProvidingLoop ==
    /\ test = "generator-providing-values-to-yield" /\ pc = "loop"
    /\ IF env.i > 100 THEN pc' = "done" /\ Apply(World)
       ELSE LET r == GenNext(World, env.a, Num(env.i))
                w1 == [r.w EXCEPT !.env.res = [value |-> r.value, done |-> r.done]]
            IN  IF r.done
                THEN LET ok == StrictEq(r.value, Num(10))
                     IN  Apply(Expect(w1, ok))
                         /\ pc' = IF ok THEN "done" ELSE "failed"
                ELSE LET ok == env.i <= 5
                     IN  IF ok
                         THEN /\ Apply([Expect(w1, ok) EXCEPT !.env.i = @ + 1])
                              /\ pc' = "loop"
                         ELSE Apply(Expect(w1, ok)) /\ pc' = "failed"
    /\ UNCHANGED <<test, inp>>

----------------------------------------------------------------------------
(* The body of test "generator-yield-delegation".                          *)

\* const d = delegator(2)
DelegationCreate ==
    /\ test = "generator-yield-delegation" /\ pc = "create"
    /\ Apply([AllocGen(World, "delegator",
                       [x |-> inp.x, at |-> "", inner |-> 0]) EXCEPT
                !.env.d = NextGen(World)])
    /\ pc' = "spread"
    /\ UNCHANGED <<test, inp>>

\* one turn of the spread in
\* expect(_.isEqual(["starting", 0, 1, "ending"], [...d])).toBeTruthy()
DelegationSpread ==
    /\ test = "generator-yield-delegation" /\ pc = "spread"
    /\ LET r == GenNext(World, env.d, Undefined)
           ok == ArrEq(<<Str("starting"), Num(0), Num(1), Str("ending")>>,
                       env.spread)
       IN  IF r.done
           THEN Apply(Expect(r.w, ok)) /\ pc' = IF ok THEN "done" ELSE "failed"
           ELSE /\ Apply([r.w EXCEPT !.env.spread = Append(@, r.value)])
                /\ pc' = "spread"
    /\ UNCHANGED <<test, inp>>

----------------------------------------------------------------------------
(* The body of test "callbacks".  The arguments setImmediate and          *)
(* setTimeout are to pass to the callback are kept in the closure.  The    *)
(* host runs an immediate or a due timer, whichever its loop reaches       *)
(* first.                                                                  *)

\* setImmediate(cb, 10, 100); setTimeout(cb, 0, 10, 20)
CallbacksBody ==
    /\ test = "callbacks" /\ pc = "body"
    /\ LET w1 == [World EXCEPT !.env.immediates =
                      Append(@, FnPI("callbacks.immediate", 10, 100))]
       IN  Apply(SetTimeout(w1, FnPI("callbacks.timeout", 10, 20), 0))
    /\ pc' = "done"
    /\ UNCHANGED <<test, inp>>

\* one setImmediate callback, only when no microtask is pending
RunImmediate ==
    /\ test = "callbacks" /\ pc = "done"
    /\ jobs = <<>>
    /\ env.immediates # <<>>
    /\ LET w == [World EXCEPT !.env.immediates = Tail(@)]
       IN  Apply(Call(Head(env.immediates), Undefined, w).w)
    /\ UNCHANGED <<test, inp, pc>>

----------------------------------------------------------------------------
(* The body of test "rxjs-multicast".                                      *)

\* multicastSequence.subscribe({ next(num) { resultsFirst.push(num) }, ... })
MulticastSubscribeFirst ==
    /\ test = "rxjs-multicast" /\ pc = "first"
    /\ Apply(Multicast_subscriber(World, 1))
    /\ pc' = "later"
    /\ UNCHANGED <<test, inp>>

\* setTimeout(() => { multicastSequence.subscribe({ ... }) }, 1500)
MulticastSubscribeLater ==
    /\ test = "rxjs-multicast" /\ pc = "later"
    /\ Apply(SetTimeout(World, Fn("multicast.later"), inp.delay))
    /\ pc' = "done"
    /\ UNCHANGED <<test, inp>>

----------------------------------------------------------------------------
(* new Person(name) and new Teacher(name, "math", []), as the class tests *)
(* construct them, for the names of PersonNames.                           *)

PersonConstruct ==
    /\ test = "person-constructor" /\ pc = "new"
    /\ LET r == IF inp.class = "Person" THEN Person_constructor(World, inp.name)
                ELSE Teacher_constructor(World, inp.name, Str("math"), Arr(<<>>))
       IN  IF r.threw
           THEN Apply([r.w EXCEPT !.env.error = r.value]) /\ pc' = "failed"
           ELSE Apply([r.w EXCEPT !.env.p = r.value]) /\ pc' = "done"
    /\ UNCHANGED <<test, inp>>

----------------------------------------------------------------------------
(* The this tests as one scenario: an enclosing function is invoked in the *)
(* form inp.outerForm on inp.outerThis and creates the callee there: a     *)
(* function returning this (getThis, echo), an arrow function returning    *)
(* this.a (the arrow of foo), or getThis.bind(inp.boundThis).  The callee  *)
(* is then invoked in the form inp.form on inp.thisArg.  The forms are the *)
(* ones the tests use on each kind of function.                            *)

ThisCreate ==
    /\ test = "this-binding" /\ pc = "create"
    /\ LET outerSeen == ThisBinding(Func("function", Undefined), inp.outerForm,
                                    inp.outerThis, ThisObj(4))
           f == CASE inp.kind = "function" -> Func("function", Undefined)
                  [] inp.kind = "arrow" -> Func("arrow", outerSeen)
                  [] inp.kind = "bound" -> Func("bound", inp.boundThis)
       IN  Apply([World EXCEPT !.env.outerSeen = outerSeen, !.env.f = f])
    /\ pc' = "invoke"
    /\ UNCHANGED <<test, inp>>

ThisInvoke ==
    /\ test = "this-binding" /\ pc = "invoke"
    /\ LET seen == ThisBinding(env.f, inp.form, inp.thisArg, ThisObj(5))
           r == IF inp.kind = "arrow" THEN GetProperty(seen, "a")
                ELSE [threw |-> FALSE, value |-> seen]
       IN  /\ Apply([World EXCEPT !.env.seen = seen, !.env.called = TRUE,
                                  !.env.result = r.value])
           /\ pc' = IF r.threw THEN "failed" ELSE "done"
    /\ UNCHANGED <<test, inp>>

----------------------------------------------------------------------------
(* Test "sparse arrays" as a scenario: the array starts as [] or as       *)
(* [1, 2, 3], is assigned up to MaxAssign times through keys of the test    *)
(* (a[0], a[1], a[2], a[9], a["test"], a["2"]), and is then read and        *)
(* enumerated.  assigned records the indices the assignments named.        *)

\* let a = []; let a2 = [1, 2, 3]
SparseCreate ==
    /\ test = "sparse arrays" /\ pc = "create"
    /\ Apply([World EXCEPT
                !.env.a = [elements |-> [k \in 0..(Len(inp.literal) - 1) |->
                                            Num(inp.literal[k + 1])],
                           properties |-> <<>>,
                           length |-> Len(inp.literal)],
                !.env.assigned = 0..(Len(inp.literal) - 1)])
    /\ pc' = "assign"
    /\ UNCHANGED <<test, inp>>

\* a[key] = v
SparseAssign ==
    /\ test = "sparse arrays" /\ pc = "assign"
    /\ env.assignments < MaxAssign
    /\ \E key \in {Num(0), Num(1), Num(2), Num(9), Str("test"), Str("2")},
          v \in {Undefined, Num(100)} :
          Apply([World EXCEPT
                   !.env.a = ArraySet(@, key, v),
                   !.env.assignments = @ + 1,
                   !.env.assigned =
                       @ \cup (IF Kind(key) = "number" THEN {key[2]}
                               ELSE IF key[2] = "2" THEN {2} ELSE {}),
                   !.env.last = [key |-> key, value |-> v,
                                 length |-> env.a.length]])
    /\ UNCHANGED <<test, inp, pc>>

\* a[n] for every n, then let count = 0; for (let i in a) { count++ }
SparseEnumerate ==
    /\ test = "sparse arrays" /\ pc = "assign"
    /\ Apply([World EXCEPT
                !.env.reads = [n \in 0..MaxIndex |-> ArrayGet(env.a, Num(n))],
                !.env.visited = ForIn(env.a),
                !.env.count = Len(ForIn(env.a))])
    /\ pc' = "done"
    /\ UNCHANGED <<test, inp>>

----------------------------------------------------------------------------
(* The expectations of tests "NaN" and "object-equality" as a scenario:   *)
(* x and y are each produced by a literal, by Number(arg) or by 1 / arg,    *)
(* and every comparison of the tests is made on them.                      *)

NaNCompare ==
    /\ test = "NaN" /\ pc = "compare"
    /\ LET produce(e) == CASE e.op = "literal" -> e.arg
                           [] e.op = "Number" -> ToNumber(e.arg)
                           [] e.op = "divide" -> Divide(Num(1), e.arg)
           x == produce(inp.x)
           y == produce(inp.y)
       IN  Apply([World EXCEPT
                    !.env.x = x, !.env.y = y,
                    !.env.loose = LooseEq(x, y),
                    !.env.strict = StrictEq(x, y),
                    !.env.self = StrictEq(x, x),
                    !.env.objectIs = ObjectIs(x, y),
                    !.env.numberIsNaN = (Kind(x) = "NaN"),
                    !.env.isNaN = (Kind(ToNumber(x)) = "NaN"),
                    !.env.typeof = Typeof(x)])
    /\ pc' = "done"
    /\ UNCHANGED <<test, inp>>

----------------------------------------------------------------------------
(* One turn of the loop of a fizz-buzz test, for the i of the run.  The    *)
(* loops of the tests cover 0 .. 99 (first try) and 1 .. 100 (second and   *)
(* third try); the scenario runs every body for every i of 0 .. 100.       *)

\* expect(prove(i)).toBe(result)
FizzBuzzTurn ==
    /\ test = "fizz-buzz" /\ pc = "loop"
    /\ LET result == CASE inp.try = "first" -> FirstTry(inp.i)
                       [] inp.try = "second" -> SecondTry(inp.i)
                       [] inp.try = "third" -> ThirdTry(inp.i)
           proved == prove(inp.i)
           ok == StrictEq(proved, result)
       IN  /\ Apply([Expect(World, ok) EXCEPT !.env.result = result,
                                              !.env.proved = proved])
           /\ pc' = IF ok THEN "done" ELSE "failed"
    /\ UNCHANGED <<test, inp>>

----------------------------------------------------------------------------
(* Test "proxies-basic" as a scenario: up to MaxAccesses accesses through *)
(* the proxy, each a read of name, of echo, of age (which Foo has not) or  *)
(* the call proxy.echo().  nameReads counts the reads of name the accesses *)
(* make: one for proxy.name, one for proxy.echo().                         *)

\* const f = new Foo("damon"); const proxy = new Proxy(f, logger)
ProxyCreate ==
    /\ test = "proxies-basic" /\ pc = "create"
    /\ Apply([World EXCEPT
                !.env.f = Obj([name |-> Str(inp.name),
                               echo |-> Func("function", Undefined)])])
    /\ pc' = "access"
    /\ UNCHANGED <<test, inp>>

\* proxy.name, proxy.echo, proxy.age, proxy.echo()
ProxyAccess ==
    /\ test = "proxies-basic" /\ pc = "access"
    /\ env.count < MaxAccesses
    /\ \E op \in {"name", "echo", "age", "echo()"} :
          LET got == Logger_get(World, env.f, "echo")
              r == IF op = "echo()"
                   THEN Foo_echo(got.w, ThisBinding(got.value, "method",
                                                    <<"proxy", "">>, Undefined))
                   ELSE Logger_get(World, env.f, op)
          IN  Apply([r.w EXCEPT
                       !.env.count = @ + 1,
                       !.env.nameReads = IF op \in {"name", "echo()"}
                                         THEN @ + 1 ELSE @,
                       !.env.last = [op |-> op, value |-> r.value,
                                     accesses |-> env.accesses]])
    /\ UNCHANGED <<test, inp, pc>>

----------------------------------------------------------------------------
(* Test "classes-member-deletion" as a scenario, on a Person or a        *)
(* Teacher: up to MaxMemberOps of p.test = "wtf", delete p.test, delete    *)
(* p.name, an assignment to p.capitalizedName and p.toString() in any      *)
(* order, then the reads of the test.                                      *)

\* let p = new Person("test"), let t = new Teacher("damon", "math", [])
MemberCreate ==
    /\ test = "classes-member-deletion" /\ pc = "create"
    /\ LET r == IF inp.class = "Person"
                THEN Person_constructor(World, Str(inp.name))
                ELSE Teacher_constructor(World, Str(inp.name), Str("math"),
                                         Arr(<<>>))
       IN  Apply([r.w EXCEPT !.env.p = r.value])
    /\ pc' = "members"
    /\ UNCHANGED <<test, inp>>

\* p.test = "wtf"; delete p.test; delete p.name; p.capitalizedName =
\* "DAMON"; p.toString()
MemberChange ==
    /\ test = "classes-member-deletion" /\ pc = "members"
    /\ Len(env.changes) < MaxMemberOps
    /\ \E op \in {"p.test = wtf", "delete p.test", "delete p.name",
                  "p.capitalizedName = DAMON", "p.capitalizedName = COLE",
                  "p.toString()"} :
          LET props == env.p[2]
              set(name, v) == [k \in DOMAIN props \cup {name} |->
                                  IF k = name THEN v ELSE props[k]]
              delete(name) == [k \in DOMAIN props \ {name} |-> props[k]]
              str == IF inp.class = "Person" THEN Person_toString(World, env.p)
                     ELSE Teacher_toString(World, env.p)
              after ==
                CASE op = "p.test = wtf" -> Obj(set("test", Str("wtf")))
                  [] op = "delete p.test" -> Obj(delete("test"))
                  [] op = "delete p.name" -> Obj(delete("name"))
                  [] op = "p.capitalizedName = DAMON" ->
                        Person_set_capitalizedName(World, env.p,
                                                   Str("DAMON")).this
                  [] op = "p.capitalizedName = COLE" ->
                        Person_set_capitalizedName(World, env.p,
                                                   Str("COLE")).this
                  [] op = "p.toString()" -> str.this
          IN  Apply([World EXCEPT
                       !.env.p = after,
                       !.env.changes = Append(@, op),
                       !.env.str = IF op = "p.toString()" THEN str.value
                                   ELSE @])
    /\ UNCHANGED <<test, inp, pc>>

\* p.name; p.test; p.capitalizedName
MemberRead ==
    /\ test = "classes-member-deletion" /\ pc = "members"
    /\ LET c == Person_capitalizedName(World, env.p)
       IN  Apply([c.w EXCEPT
                    !.env.name = GetProperty(env.p, "name").value,
                    !.env.test = GetProperty(env.p, "test").value,
                    !.env.capitalizedName = [threw |-> c.threw, value |-> c.value]])
    /\ pc' = "done"
    /\ UNCHANGED <<test, inp>>

----------------------------------------------------------------------------
(* Test "default parameter expressions" as a scenario: up to MaxCalls     *)
(* calls func(1, arg2), arg2 omitted (undefined) or given.                 *)

\* func(1), func(1, 2)
DefaultParamCall ==
    /\ test = "default parameter expressions" /\ pc = "call"
    /\ Len(env.results) < MaxCalls
    /\ \E arg2 \in {Undefined, Null, Num(0), Num(2)} :
          LET r == func(World, Num(1), arg2)
          IN  Apply([r.w EXCEPT !.env.results = Append(@, r.value),
                                !.env.args = Append(@, arg2)])
    /\ UNCHANGED <<test, inp, pc>>

----------------------------------------------------------------------------
(* The tagged templates of test "string templates", for the template of  *)
(* the run.                                                                *)

\* echoTag`...`; echoReduce`...`
TemplateTag ==
    /\ test = "string templates" /\ pc = "tag"
    /\ Apply([World EXCEPT
                !.env.message = Str(echoTag(inp.strings, inp.values)),
                !.env.reduced = Str(echoReduce(inp.strings, inp.values))])
    /\ pc' = "done"
    /\ UNCHANGED <<test, inp>>

----------------------------------------------------------------------------
(* The multicast observable under its clients: observers 1 and 2 are each *)
(* passed once to the subscriber function, at any moment, and              *)
(* unsubscribe() of the object it returned for an observer is called at    *)
(* any later moment, up to MaxUnsubscribes times in all, between the       *)
(* sequence's timers.  An RxJS Subscription calls that unsubscribe() once, *)
(* on completion or when it is itself unsubscribed; a caller holding the   *)
(* returned object can call it again.  emptied tells that the last         *)
(* subscribe or unsubscribe was an unsubscribe that left no observer.      *)

\* multicastSequenceSubscriber()(observer)
MulticastSubscribe ==
    /\ test = "multicast-interleaving"
    /\ \E o \in {1, 2} \ env.subscribed :
          Apply([Multicast_subscriber(World, o) EXCEPT
                   !.env.subscribed = @ \cup {o},
                   !.env.emptied = FALSE])
    /\ UNCHANGED <<test, inp, pc>>

\* the unsubscribe() of the object returned for observer o
MulticastUnsubscribe ==
    /\ test = "multicast-interleaving"
    /\ env.unsubscribes < MaxUnsubscribes
    /\ \E o \in env.subscribed :
          LET w1 == Multicast_unsubscribe(World, o)
          IN  Apply([w1 EXCEPT
                       !.env.unsubscribes = @ + 1,
                       !.env.unsubscribed = o,
                       !.env.emptied = (w1.env.observers = <<>>)])
    /\ UNCHANGED <<test, inp, pc>>

----------------------------------------------------------------------------
(* eqSets of test "callbacks", called on two values: Sets of numbers and  *)
(* values that are not Sets.                                               *)

\* eqSets(set1, set2)
EqSetsCall ==
    /\ test = "set equality" /\ pc = "call"
    /\ env' = [env EXCEPT !.result = eqSets(inp.set1, inp.set2)]
    /\ pc' = "done"
    /\ UNCHANGED <<test, inp, promises, jobs, timers, now, gens>>

----------------------------------------------------------------------------
(* Test "switch", over the string switched on: the test has a = "test";   *)
(* the other labels and a string matching no label are run as well.        *)

\* let val = "initial"; switch (a) { ... }
SwitchStatement ==
    /\ test = "switch" /\ pc = "switch"
    /\ LET r == Switch_statement(World, inp.a)
       IN  /\ Apply(r.w)
           /\ pc' = IF r.returned THEN "done" ELSE "expect"
    /\ UNCHANGED <<test, inp>>

\* expect(val).toBe("test")
SwitchExpect ==
    /\ test = "switch" /\ pc = "expect"
    /\ Apply(Expect(World, StrictEq(env.val, Str("test"))))
    /\ pc' = "done"
    /\ UNCHANGED <<test, inp>>

----------------------------------------------------------------------------
(* pairIterator under its callers: next() calls and whole for...of loops, *)
(* MaxIterations of them in all.  env.loops has, for each loop, the value  *)
(* of currentPos when it started and the array it collected.               *)

\* pairIterator.next()
PairNext ==
    /\ test = "custom-iterable"
    /\ env.ops < MaxIterations
    /\ Apply([PairIterator_next(World).w EXCEPT !.env.ops = @ + 1])
    /\ UNCHANGED <<test, inp, pc>>

\* let results = []; for (let val of pairIterator) { results.push(val) }
PairForOf ==
    /\ test = "custom-iterable"
    /\ env.ops < MaxIterations
    /\ LET r == PairIterator_forOf(World, <<>>)
       IN  Apply([r.w EXCEPT !.env.ops = @ + 1,
                             !.env.loops = Append(@,
                                 [startPos |-> env.currentPos,
                                  results |-> r.results])])
    /\ UNCHANGED <<test, inp, pc>>

----------------------------------------------------------------------------
(* Initial states: one test, one choice of its parameters.                 *)

Tests ==
    {"promises-chaining", "promises-guaranteed-callback-on-settlement",
     "settle-once", "promises-gating", "multiple-promises-resolve-and-reject",
     "error-handling-within-then", "nested-promise", "generator-manual",
     "generator-iteration", "generator-providing-values-to-yield",
     "generator-yield-delegation",
     "callbacks",
     "rxjs-multicast",
     "person-constructor",
     "this-binding",
     "sparse arrays",
     "NaN",
     "fizz-buzz",
     "proxies-basic",
     "classes-member-deletion",
     "default parameter expressions",
     "string templates",
     "multicast-interleaving",
     "set equality",
     "switch",
     "custom-iterable"}

\* the delays the timers of the tests are given
Delays == {10, 50}

\* every list of 1 .. MaxAttempts settle attempts
Attempts ==
    UNION {[1..n -> {"resolve", "reject"}] : n \in 1..MaxAttempts}

\* the values given as the name of a Person
PersonNames ==
    {Undefined, Null, Str("damon"), Str(""), Num(0), Num(42), Bool(TRUE),
     Bool(FALSE), Arr(<<>>), Arr(<<Str("damon")>>), Obj([name |-> Str("damon")])}

\* the combinations of the this scenario
ThisInputs ==
    {i \in [kind : {"function", "arrow", "bound"},
            outerForm : {"plain", "method", "call"},
            outerThis : {ThisObj(1), ThisObj(2)},
            boundThis : {ThisObj(1), ThisObj(2)},
            form : {"plain", "method", "new", "call", "apply"},
            thisArg : {ThisObj(1), ThisObj(2), ThisObj(3)}] :
        /\ i.form = "new" => i.kind = "function"
        /\ i.kind # "bound" => i.boundThis = ThisObj(1)}

\* the expressions that produce x and y in the NaN scenario
NaNExpressions ==
    {[op |-> "literal", arg |-> v] :
        v \in {NaN, Undefined, Null, Num(0), Num(5), Str("5"), Str("damon"),
               Str(""), Bool(TRUE)}}
    \cup {[op |-> "Number", arg |-> v] : v \in {Str("damon"), Undefined, Str("5")}}
    \cup {[op |-> "divide", arg |-> v] : v \in {Str("test"), Num(1)}}

\* the values eqSets is called on
EqSetsValues ==
    {Undefined, Num(1), Arr(<<>>), Arr(<<Num(1)>>),
     SetOf(<<>>), SetOf(<<Num(1)>>), SetOf(<<Num(2)>>),
     SetOf(<<Num(1), Num(2)>>), SetOf(<<Num(2), Num(1)>>),
     SetOf(<<Num(1), Num(3)>>), SetOf(<<Num(1), Num(2), Num(3)>>)}

Inputs(t) ==
    CASE t = "promises-chaining" -> [delay : Delays]
      [] t = "settle-once" -> [attempts : Attempts, async : BOOLEAN]
      [] t = "promises-gating" -> [d1 : Delays, d2 : Delays]
      [] t = "generator-providing-values-to-yield" -> [x : 0..MaxX]
      [] t = "generator-yield-delegation" -> [x : 0..MaxX]
      [] t = "rxjs-multicast" -> [delay : {500, 1500, 2500}]
      [] t = "person-constructor" -> [class : {"Person", "Teacher"}, name : PersonNames]
      [] t = "this-binding" -> ThisInputs
      [] t = "sparse arrays" -> [literal : {<<>>, <<1, 2, 3>>}]
      [] t = "NaN" -> [x : NaNExpressions, y : NaNExpressions]
      [] t = "fizz-buzz" -> [try : {"first", "second", "third"}, i : 0..FizzBuzzLimit]
      [] t = "proxies-basic" -> [name : {"damon", "cole"}]
      [] t = "classes-member-deletion" ->
            [class : {"Person", "Teacher"}, name : {"test", "damon"}]
      [] t = "string templates" -> UNION {[strings : [1..(n + 1) -> {"", " items cost $", "a"}],
                    values : [1..n -> {Num(10), Str("2.50"), Undefined}]] :
                   n \in 0..MaxValues}
      [] t = "set equality" -> [set1 : EqSetsValues, set2 : EqSetsValues]
      [] t = "switch" -> [a : {Str("damon"), Str("cole"), Str("test"), Str("")}]
      [] t = "custom-iterable" -> {[left |-> Str("left"), right |-> Str("right")], [left |-> Num(1), right |-> Num(2)]}
      [] OTHER -> {[none |-> TRUE]}

InitEnv(t) ==
    CASE t = "promises-chaining" ->
            [listenerOrder |-> <<>>, expects |-> <<>>, promise |-> 0]
      [] t = "promises-guaranteed-callback-on-settlement" ->
            [called |-> FALSE, expects |-> <<>>, p |-> 0]
      [] t = "settle-once" -> [calls |-> <<>>, p |-> 0]
      [] t = "promises-gating" ->
            [p1 |-> 0, p2 |-> 0, p3 |-> 0, outer |-> 0, expects |-> <<>>]
      [] t = "multiple-promises-resolve-and-reject" ->
            [executedPromises |-> {}, p1 |-> 0, p2 |-> 0, all |-> 0,
             expects |-> <<>>]
      [] t = "error-handling-within-then" -> [p |-> 0, expects |-> <<>>]
      [] t = "nested-promise" -> [results |-> {}, p |-> 0, expects |-> <<>>]
      [] t = "generator-manual" ->
            [activity |-> <<>>, x |-> 1, it |-> 0,
             val |-> [value |-> Undefined, done |-> FALSE], expects |-> <<>>]
      [] t = "generator-iteration" ->
            [results |-> <<>>, iterator |-> 0, r |-> 0, expects |-> <<>>]
      [] t = "generator-providing-values-to-yield" ->
            [a |-> 0, i |-> 0, res |-> [value |-> Undefined, done |-> FALSE],
             expects |-> <<>>]
      [] t = "generator-yield-delegation" ->
            [d |-> 0, spread |-> <<>>, expects |-> <<>>]
      [] t = "callbacks" ->
            [completions |-> SetOf(<<>>),
             expected |-> SetOf(<<Str("immediate"), Str("timeout")>>),
             doneCalls |-> 0, immediates |-> <<>>, expects |-> <<>>]
      [] t = "rxjs-multicast" ->
            [seq |-> <<1, 2, 3>>, observers |-> <<>>, timeoutId |-> 0,
             timeouts |-> 0, stopped |-> {}, completed |-> <<>>,
             doneCalls |-> 0, resultsFirst |-> <<>>, resultsSecond |-> <<>>,
             expects |-> <<>>]
      [] t = "person-constructor" ->
            [p |-> Undefined, error |-> Undefined, expects |-> <<>>]
      [] t = "this-binding" ->
            [f |-> Undefined, outerSeen |-> Undefined, seen |-> Undefined,
             called |-> FALSE, result |-> Undefined, expects |-> <<>>]
      [] t = "sparse arrays" ->
            [a |-> [elements |-> <<>>, properties |-> <<>>, length |-> 0],
             assigned |-> {}, assignments |-> 0,
             last |-> [key |-> Undefined, value |-> Undefined, length |-> 0],
             reads |-> <<>>, visited |-> <<>>, count |-> 0, expects |-> <<>>]
      [] t = "NaN" ->
            [x |-> Undefined, y |-> Undefined, loose |-> FALSE, strict |-> FALSE,
             self |-> FALSE, objectIs |-> FALSE, numberIsNaN |-> FALSE,
             isNaN |-> FALSE, typeof |-> "", expects |-> <<>>]
      [] t = "fizz-buzz" ->
            [result |-> Undefined, proved |-> Undefined, expects |-> <<>>]
      [] t = "proxies-basic" ->
            [f |-> Undefined, accesses |-> 0, count |-> 0, nameReads |-> 0,
             last |-> [op |-> "", value |-> Undefined, accesses |-> 0],
             expects |-> <<>>]
      [] t = "classes-member-deletion" ->
            [p |-> Undefined, changes |-> <<>>, name |-> Undefined,
             test |-> Undefined, str |-> Undefined,
             capitalizedName |-> [threw |-> FALSE, value |-> Undefined],
             expects |-> <<>>]
      [] t = "default parameter expressions" ->
            [val |-> 10, results |-> <<>>, args |-> <<>>, expects |-> <<>>]
      [] t = "string templates" ->
            [message |-> Undefined, reduced |-> Undefined, expects |-> <<>>]
      [] t = "multicast-interleaving" ->
            [seq |-> <<1, 2, 3>>, observers |-> <<>>, timeoutId |-> 0,
             timeouts |-> 0, stopped |-> {}, completed |-> <<>>,
             doneCalls |-> 0, resultsFirst |-> <<>>, resultsSecond |-> <<>>,
             subscribed |-> {}, unsubscribes |-> 0, unsubscribed |-> 0,
             emptied |-> FALSE, expects |-> <<>>]
      [] t = "set equality" ->
            [result |-> [threw |-> FALSE, value |-> Undefined], expects |-> <<>>]
      [] t = "switch" ->
            [val |-> Str("initial"), expects |-> <<>>]
      [] t = "custom-iterable" ->
            [currentPos |-> 0, left |-> inp.left, right |-> inp.right,
             returns |-> <<>>, loops |-> <<>>, ops |-> 0, expects |-> <<>>]

StartPc(t) ==
    CASE t \in {"promises-chaining", "settle-once", "nested-promise"} -> "construct"
      [] t \in {"promises-guaranteed-callback-on-settlement",
                "error-handling-within-then"} -> "create"
      [] t \in {"promises-gating", "multiple-promises-resolve-and-reject"} -> "p1"
      [] t = "generator-manual" -> "acquiring"
      [] t = "generator-iteration" -> "start"
      [] t = "generator-providing-values-to-yield" -> "create"
      [] t = "generator-yield-delegation" -> "create"
      [] t = "callbacks" -> "body"
      [] t = "rxjs-multicast" -> "first"
      [] t = "person-constructor" -> "new"
      [] t = "this-binding" -> "create"
      [] t = "sparse arrays" -> "create"
      [] t = "NaN" -> "compare"
      [] t = "fizz-buzz" -> "loop"
      [] t = "proxies-basic" -> "create"
      [] t = "classes-member-deletion" -> "create"
      [] t = "default parameter expressions" -> "call"
      [] t = "string templates" -> "tag"
      [] t = "multicast-interleaving" -> "done"
      [] t = "set equality" -> "call"
      [] t = "switch" -> "switch"
      [] t = "custom-iterable" -> "done"

Init ==
    /\ test \in Tests
    /\ inp \in Inputs(test)
    /\ pc = StartPc(test)
    /\ promises = <<>>
    /\ jobs = <<>>
    /\ timers = <<>>
    /\ now = 0
    /\ env = InitEnv(test)
    /\ gens = <<>>

Next ==
    \/ RunMicrotask
    \/ FireTimer
    \/ ChainingConstruct
    \/ ChainingAttachChain
    \/ ChainingAttachSecond
    \/ SettledCreate
    \/ SettledAttach
    \/ SettleOnceConstruct
    \/ SettleOnceSubscribe
    \/ GatingP1
    \/ GatingP2
    \/ GatingOuter
    \/ RejectP1
    \/ RejectP2
    \/ RejectAll
    \/ ErrorInThenCreate
    \/ ErrorInThenAttach
    \/ NestedConstruct
    \/ NestedAttach
    \/ ManualAcquiring
    \/ ManualAcquire
    \/ ManualFirstNext
    \/ ManualSetX
    \/ ManualSecondNext
    \/ ManualCheck
    \/ IterStart
    \/ IterLoop1
    \/ IterCheck1
    \/ IterLoop2
    \/ IterCheck2
    \/ IterLoop3
    \/ IterCheck3
    \/ ProvidingCreate
    \/ ProvidingPrime
    \/ ProvidingLoop
    \/ DelegationCreate
    \/ DelegationSpread
    \/ CallbacksBody
    \/ RunImmediate
    \/ MulticastSubscribeFirst
    \/ MulticastSubscribeLater
    \/ PersonConstruct
    \/ ThisCreate
    \/ ThisInvoke
    \/ SparseCreate
    \/ SparseAssign
    \/ SparseEnumerate
    \/ NaNCompare
    \/ FizzBuzzTurn
    \/ ProxyCreate
    \/ ProxyAccess
    \/ MemberCreate
    \/ MemberChange
    \/ MemberRead
    \/ DefaultParamCall
    \/ TemplateTag
    \/ MulticastSubscribe
    \/ MulticastUnsubscribe
    \/ EqSetsCall
    \/ SwitchStatement
    \/ SwitchExpect
    \/ PairNext
    \/ PairForOf

Spec == Init /\ [][Next]_vars

\* the event loop has nothing left to run
Quiescent == pc = "done" /\ jobs = <<>> /\ timers = <<>>

----------------------------------------------------------------------------
(* The properties.                                                         *)

IsPrefix(s, t) == Len(s) <= Len(t) /\ s = SubSeq(t, 1, Len(s))

\* no expect() of the running test has failed so far
NoFailedExpect == \A k \in 1..Len(env.expects) : env.expects[k]

\* C1: in "promises-chaining" the executor runs at construction (0 is
\* recorded first), no listener runs while the promise is pending, the two
\* listeners attached directly to the promise run in the order they were
\* attached and the listener chained on the first then() runs after both:
\* the recorded order is a prefix of [0, 1, 2, 3] and ends as [0, 1, 2, 3].
C1_ListenerOrder ==
    test = "promises-chaining" =>
        /\ IsPrefix(env.listenerOrder, <<0, 1, 2, 3>>)
        /\ pc # "construct" =>
              /\ Len(env.listenerOrder) >= 1
              /\ promises[env.promise].state = "pending" =>
                    env.listenerOrder = <<0>>
        /\ pc # "done" =>
              env.promise = 0 \/ promises[env.promise].state = "pending"
        /\ NoFailedExpect
        /\ Quiescent =>
              /\ env.listenerOrder = <<0, 1, 2, 3>>
              /\ env.expects = <<TRUE, TRUE, TRUE>>

C1_Witness ==
    /\ test = "promises-chaining" /\ Quiescent
    /\ promises[env.promise].state = "fulfilled"
    /\ env.listenerOrder = <<0, 1, 2, 3>>

\* C2: in "promises-guaranteed-callback-on-settlement" the promise is
\* fulfilled before any handler is attached, the handler is invoked all the
\* same (called is true once the event loop is idle) and the handler chained
\* after it runs later and finds called === true.
C2_SettledStillCalled ==
    test = "promises-guaranteed-callback-on-settlement" =>
        /\ pc = "attach" => promises[env.p].state = "fulfilled"
        /\ NoFailedExpect
        /\ env.expects # <<>> => env.called
        /\ Quiescent => env.called /\ env.expects = <<TRUE>>

C2_Witness ==
    /\ test = "promises-guaranteed-callback-on-settlement" /\ Quiescent
    /\ env.called /\ env.expects = <<TRUE>>

\* the state the first settle attempt leads to
FirstOutcome ==
    IF inp.attempts[1] = "resolve" THEN "fulfilled" ELSE "rejected"

\* C3: a promise settles at most once: its state is pending or the outcome
\* of the first settle attempt and its value that attempt's value, whatever
\* the later attempts are; each subscriber is invoked at most once, only with
\* that outcome, and exactly once by the time the event loop is idle.
C3_SettlesOnce ==
    test = "settle-once" /\ pc # "construct" =>
        /\ promises[env.p].state \in {"pending", FirstOutcome}
        /\ promises[env.p].state # "pending" =>
              promises[env.p].value = Num(1)
        /\ \A k \in 1..Len(env.calls) :
              env.calls[k].type = FirstOutcome /\ env.calls[k].value = Num(1)
        /\ \A s \in {1, 2} :
              Cardinality({k \in 1..Len(env.calls) :
                              env.calls[k].subscriber = s}) <= 1
        /\ Quiescent =>
              env.calls = <<[subscriber |-> 1, type |-> FirstOutcome,
                             value |-> Num(1)],
                            [subscriber |-> 2, type |-> FirstOutcome,
                             value |-> Num(1)]>>

C3_Witness ==
    /\ test = "settle-once" /\ Quiescent
    /\ Len(inp.attempts) >= 2 /\ inp.attempts[1] # inp.attempts[2]
    /\ Len(env.calls) = 2

\* C4: in "promises-gating" the promise of Promise.all([p1, p2]) is never
\* rejected, is fulfilled only when p1 and p2 both are, and its value is
\* [1, 2], the order the promises were given in, also when p2 completes
\* first; the test's expectation holds and the outer promise resolves "done".
C4_AllInGivenOrder ==
    test = "promises-gating" /\ pc = "done" =>
        /\ promises[env.p3].state \in {"pending", "fulfilled"}
        /\ promises[env.p3].state = "fulfilled" =>
              /\ promises[env.p1].state = "fulfilled"
              /\ promises[env.p2].state = "fulfilled"
              /\ promises[env.p3].value = Arr(<<Num(1), Num(2)>>)
        /\ NoFailedExpect
        /\ Quiescent =>
              /\ promises[env.p3].state = "fulfilled"
              /\ env.expects = <<TRUE>>
              /\ promises[env.outer].state = "fulfilled"
              /\ promises[env.outer].value = Str("done")

C4_Witness ==
    /\ test = "promises-gating" /\ Quiescent
    /\ inp.d2 < inp.d1
    /\ promises[env.p3].state = "fulfilled"

\* C5: in "multiple-promises-resolve-and-reject" both executors have run
\* before Promise.all is called, the then() handler of the combined promise
\* is never invoked (it would log a failed expectation), the combined
\* promise is rejected with the Error "bad" and the catch() handler is
\* invoked with it (both of its expectations hold).
C5_AllRejects ==
    test = "multiple-promises-resolve-and-reject" =>
        /\ pc \in {"all", "done"} =>
              /\ env.executedPromises = {"p1", "p2"}
              /\ promises[env.p1].state = "fulfilled"
              /\ promises[env.p2].state = "rejected"
        /\ NoFailedExpect
        /\ Quiescent =>
              /\ promises[env.all].state = "rejected"
              /\ promises[env.all].value = Err("Error", "bad")
              /\ env.expects = <<TRUE, TRUE>>

C5_Witness ==
    /\ test = "multiple-promises-resolve-and-reject" /\ Quiescent
    /\ promises[env.all].state = "rejected"
    /\ env.expects = <<TRUE, TRUE>>

\* C6: in "error-handling-within-then" the exception thrown by the first
\* then() handler rejects the promise derived from it with the
\* ReferenceError, the next then() handler is skipped (it would log a failed
\* expectation) and passes the rejection on, and the catch() handler receives
\* the ReferenceError.
C6_ThrowInThen ==
    test = "error-handling-within-then" =>
        /\ NoFailedExpect
        /\ Quiescent =>
              /\ promises[env.p + 1].state = "rejected"
              /\ Kind(promises[env.p + 1].value) = "ReferenceError"
              /\ promises[env.p + 2].state = "rejected"
              /\ Kind(promises[env.p + 2].value) = "ReferenceError"
              /\ promises[env.p + 3].state = "fulfilled"
              /\ env.expects = <<TRUE>>

C6_Witness ==
    /\ test = "error-handling-within-then" /\ Quiescent
    /\ promises[env.p + 1].state = "rejected"
    /\ env.expects = <<TRUE>>

\* C7: in "nested-promise" the then() that follows a handler returning a
\* promise runs only after that promise has settled: when its expectation is
\* evaluated results is {1, 2}, and the promise derived from the handler is
\* pending as long as the inner promise is.
C7_NestedPromise ==
    test = "nested-promise" =>
        /\ NoFailedExpect
        /\ env.expects # <<>> => env.results = {1, 2}
        /\ (pc = "done" /\ 2 \notin env.results) =>
              promises[env.p + 1].state = "pending"
        /\ Quiescent => env.expects = <<TRUE>> /\ env.results = {1, 2}

C7_Witness ==
    /\ test = "nested-promise" /\ Quiescent
    /\ env.results = {1, 2} /\ env.expects = <<TRUE>>
    /\ promises[env.p + 1].value = Num(2)

ManualActivity ==
    <<"acquiring iterator", "acquired iterator", "before yield", "yielded 10",
      "resuming iterator", "after yield", "done">>

\* C8: in "generator-manual" calling gen() runs none of the body; the first
\* next() runs it up to the yield and returns {value: 10, done: false}; the
\* code after the yield runs only on the second next(), which returns done
\* and sees x = 100; the recorded activity is always a prefix of, and ends
\* as: acquiring iterator, acquired iterator, before yield, yielded 10,
\* resuming iterator, after yield, done.
C8_GeneratorSuspends ==
    test = "generator-manual" =>
        /\ pc # "failed" /\ NoFailedExpect
        /\ IsPrefix(env.activity, ManualActivity)
        /\ pc = "first next" =>
              /\ env.activity = SubSeq(ManualActivity, 1, 2)
              /\ gens[env.it].state = "suspendedStart"
        /\ pc = "set x" =>
              /\ env.activity = SubSeq(ManualActivity, 1, 4)
              /\ env.val = [value |-> Num(10), done |-> FALSE]
              /\ gens[env.it].state = "suspendedYield"
        /\ pc = "second next" =>
              /\ env.activity = SubSeq(ManualActivity, 1, 5)
              /\ env.x = 100
              /\ gens[env.it].state = "suspendedYield"
        /\ pc \in {"check", "done"} =>
              /\ env.activity = ManualActivity
              /\ gens[env.it].state = "completed"
        /\ pc = "done" => Len(env.expects) = 7

C8_Witness ==
    /\ test = "generator-manual" /\ pc = "done"
    /\ env.activity = ManualActivity
    /\ env.val = [value |-> Num(10), done |-> FALSE]

\* 0 + 1 + ... + (x - 1)
SumBelow(x) == (x * (x - 1)) \div 2

\* C9: for addWhileLessThanX(x): the priming next() returns "begin"; each
\* next(i) with i < x is received by the pending yield, added to the sum and
\* answered with done: false; the generator completes exactly on next(x),
\* never earlier, with value 0 + 1 + ... + (x - 1); for x = 5 that is 10 at
\* i = 5 and the test passes.
C9_AddWhileLessThanX ==
    test = "generator-providing-values-to-yield" /\ pc \notin {"create", "prime"} =>
        /\ pc = "loop" =>
              /\ ~env.res.done
              /\ env.i <= inp.x
              /\ env.res.value = (IF env.i = 0 THEN Str("begin") ELSE Undefined)
              /\ gens[env.a].state = "suspendedYield"
              /\ gens[env.a].locals.sum = SumBelow(env.i)
              /\ env.i > 0 => gens[env.a].locals.val = Num(env.i - 1)
        /\ env.res.done =>
              /\ env.i = inp.x
              /\ env.res.value = Num(SumBelow(inp.x))
              /\ gens[env.a].state = "completed"
        /\ pc = "done" => env.res.done
        /\ (pc = "failed" /\ ~env.res.done) => env.i > 5 /\ env.i < inp.x
        /\ inp.x = 5 => pc # "failed" /\ NoFailedExpect

C9_Witness ==
    /\ test = "generator-providing-values-to-yield" /\ inp.x = 5
    /\ pc = "done" /\ env.i = 5
    /\ env.res = [value |-> Num(10), done |-> TRUE]

IterationResults == <<Num(0), Num(2), Num(4), Num(6), Num(8), Num(10)>>

\* C10: in the last loop of "generator-iteration" return() is called while
\* the element 10 is being processed: that element is still collected, the
\* generator is completed from then on and produces nothing more, so the
\* loop collects exactly [0, 2, 4, 6, 8, 10].
C10_ReturnEndsLoop ==
    test = "generator-iteration" =>
        /\ pc # "failed" /\ NoFailedExpect
        /\ pc = "loop3" =>
              /\ IsPrefix(env.results, IterationResults)
              /\ gens[env.r].state = "completed" <=>
                    env.results = IterationResults
        /\ pc \in {"check3", "done"} =>
              /\ env.results = IterationResults
              /\ gens[env.r].state = "completed"

C10_Witness ==
    /\ test = "generator-iteration" /\ pc = "loop3"
    /\ gens[env.r].state = "completed"
    /\ env.results = IterationResults

\* what delegator(x) is to yield: "starting", 0 .. x - 1, "ending"
DelegatorValues(x) ==
    <<Str("starting")>> \o [k \in 1..x |-> Num(k - 1)] \o <<Str("ending")>>

\* C11: in "generator-yield-delegation", for every x >= 0 the values
\* delegator(x) hands out are "starting", then 0 .. x - 1 from the inner
\* generator, then "ending", in that order and nothing else: what has been
\* spread so far is a beginning of that list, it is the whole list once the
\* generator is done, and the test's expectation holds exactly for x = 2.
C11_YieldDelegation ==
    test = "generator-yield-delegation" =>
        /\ Len(env.spread) <= inp.x + 2
        /\ ArrEq(env.spread, SubSeq(DelegatorValues(inp.x), 1, Len(env.spread)))
        /\ pc \in {"done", "failed"} =>
              /\ ArrEq(env.spread, DelegatorValues(inp.x))
              /\ gens[env.d].state = "completed"
        /\ pc = "done" <=> (env.expects = <<TRUE>>)
        /\ (pc \in {"done", "failed"} /\ inp.x = 2) => pc = "done"

C11_Witness ==
    /\ test = "generator-yield-delegation" /\ pc = "done" /\ inp.x = 2
    /\ ArrEq(env.spread, <<Str("starting"), Num(0), Num(1), Str("ending")>>)

\* C12: in "callbacks" done() is called at most once at any time, it has
\* been called exactly when both "immediate" and "timeout" have been
\* recorded (never while only one of them has), whichever of the two
\* callbacks the host runs first, it has been called once both callbacks
\* have run, and every expectation of the callbacks holds.
C12_DoneAfterBoth ==
    test = "callbacks" =>
        /\ env.doneCalls <= 1
        /\ env.doneCalls = 1 <=>
              {env.completions[2][k] : k \in 1..Len(env.completions[2])}
                  = {Str("immediate"), Str("timeout")}
        /\ Len(env.completions[2]) = 1 => env.doneCalls = 0
        /\ (Quiescent /\ env.immediates = <<>>) => env.doneCalls = 1
        /\ NoFailedExpect

C12_Witness ==
    /\ test = "callbacks" /\ Quiescent /\ env.immediates = <<>>
    /\ env.completions = SetOf(<<Str("timeout"), Str("immediate")>>)
    /\ env.doneCalls = 1

\* C13: in "rxjs-multicast" the observer subscribed from the start receives
\* 1, 2, 3 in order and has all three when its complete is delivered; when
\* the second observer subscribes between the first and the second emission
\* (1000 < delay < 2000) it receives 2, 3 only and has both when its
\* complete is delivered, no expectation fails, and once the timers have run
\* out both observers have completed, "one" before "two", and done() has
\* been called once.
C13_Multicast ==
    test = "rxjs-multicast" =>
        /\ \E n \in 0..3 :
              ArrEq(env.resultsFirst, SubSeq(<<Num(1), Num(2), Num(3)>>, 1, n))
        /\ (\E k \in 1..Len(env.completed) : env.completed[k] = "one") =>
              ArrEq(env.resultsFirst, <<Num(1), Num(2), Num(3)>>)
        /\ Quiescent => env.completed # <<>> /\ env.completed[1] = "one"
        /\ (inp.delay > 1000 /\ inp.delay < 2000) =>
              /\ \E n \in 0..2 :
                    ArrEq(env.resultsSecond, SubSeq(<<Num(2), Num(3)>>, 1, n))
              /\ (\E k \in 1..Len(env.completed) : env.completed[k] = "two") =>
                    ArrEq(env.resultsSecond, <<Num(2), Num(3)>>)
              /\ NoFailedExpect
              /\ Quiescent =>
                    /\ env.completed = <<"one", "two">>
                    /\ env.doneCalls = 1

C13_Witness ==
    /\ test = "rxjs-multicast" /\ Quiescent /\ inp.delay = 1500
    /\ ArrEq(env.resultsFirst, <<Num(1), Num(2), Num(3)>>)
    /\ ArrEq(env.resultsSecond, <<Num(2), Num(3)>>)
    /\ env.completed = <<"one", "two">>

\* C14: constructing a Person, or a Teacher through super(name), throws the
\* Error "name is required" when name is undefined, throws the Error "name
\* must be a string" for every other name that is not a string, and for a
\* string stores it unchanged; no object is constructed whose name is not a
\* string.
C14_PersonName ==
    (test = "person-constructor" /\ pc # "new") =>
        /\ Kind(inp.name) = "undefined" =>
              pc = "failed" /\ env.error = Err("Error", "name is required")
        /\ Kind(inp.name) \notin {"undefined", "string"} =>
              pc = "failed" /\ env.error = Err("Error", "name must be a string")
        /\ Kind(inp.name) = "string" =>
              /\ pc = "done" /\ Kind(env.p) = "object"
              /\ env.p[2].name = inp.name
        /\ pc = "done" => Kind(env.p[2].name) = "string"
        /\ pc = "failed" => Kind(env.p) = "undefined"

C14_Witness ==
    /\ test = "person-constructor" /\ pc = "failed" /\ inp.class = "Teacher"
    /\ Kind(inp.name) = "null"
    /\ env.error = Err("Error", "name must be a string")

\* C15: the this of a function that is not an arrow function (and not
\* bound) is fixed by the form of the call alone, wherever the function was
\* created: undefined for a plain call, also of a function created inside a
\* method or of a method taken into a variable, the object for a method
\* call, the new object for a constructor call, and the given object for
\* call() and apply().
C15_ThisByCallForm ==
    (test = "this-binding" /\ inp.kind = "function" /\ env.called) =>
        /\ inp.form = "plain" => Kind(env.seen) = "undefined"
        /\ inp.form \in {"method", "call", "apply"} => env.seen = inp.thisArg
        /\ inp.form = "new" =>
              /\ Kind(env.seen) = "object"
              /\ env.seen \notin {inp.thisArg, inp.outerThis, env.outerSeen}
        /\ env.result = env.seen

C15_Witness ==
    /\ test = "this-binding" /\ inp.kind = "function" /\ env.called
    /\ inp.outerForm = "method" /\ env.outerSeen = inp.outerThis
    /\ inp.form = "plain" /\ Kind(env.seen) = "undefined"

\* C16: a function made by bind(obj) runs with this = obj in every call,
\* also through call() or apply() on another object.
C16_BoundThis ==
    (test = "this-binding" /\ inp.kind = "bound" /\ env.called) =>
        /\ env.seen = inp.boundThis
        /\ env.result = inp.boundThis

C16_Witness ==
    /\ test = "this-binding" /\ inp.kind = "bound" /\ env.called
    /\ inp.form = "call" /\ inp.thisArg # inp.boundThis
    /\ env.seen = inp.boundThis

\* C17: the this of an arrow function is the this of the invocation of the
\* enclosing function that created it, whatever the form in which the arrow
\* is called: created under foo.call(obj1) it returns obj1.a = 2, under
\* foo.call(obj2) it returns obj2.a = 3, and created in a function called
\* plainly it sees undefined as that function does.
C17_ArrowThis ==
    (test = "this-binding" /\ inp.kind = "arrow" /\ env.called) =>
        /\ env.seen = env.outerSeen
        /\ inp.outerForm = "plain" =>
              Kind(env.outerSeen) = "undefined" /\ Kind(env.seen) = "undefined"
        /\ inp.outerForm \in {"method", "call"} =>
              /\ env.seen = inp.outerThis
              /\ pc = "done"
              /\ inp.outerThis = ThisObj(1) => env.result = Num(2)
              /\ inp.outerThis = ThisObj(2) => env.result = Num(3)

C17_Witness ==
    /\ test = "this-binding" /\ inp.kind = "arrow" /\ env.called
    /\ inp.outerForm = "call" /\ inp.outerThis = ThisObj(2)
    /\ inp.form = "call" /\ inp.thisArg = ThisObj(1)
    /\ env.result = Num(3)

\* C18: in "sparse arrays" the length of the array is one more than the
\* highest index that was assigned (0 if none), holes included; an index
\* that was not assigned reads as undefined; for...in visits exactly the
\* assigned indices, those assigned undefined included and the holes not,
\* so 3 keys for the indices {0, 1, 9} while the length is 10; an assignment
\* through the key "test" or through "2" when index 2 is below the length
\* leaves the length as it was, and "2" assigns element 2.
C18_SparseArrays ==
    (test = "sparse arrays" /\ pc # "create") =>
        /\ env.a.length =
              IF env.assigned = {} THEN 0
              ELSE 1 + CHOOSE m \in env.assigned : \A k \in env.assigned : k <= m
        /\ pc = "done" =>
              /\ \A n \in 0..MaxIndex :
                    n \notin env.assigned => Kind(env.reads[n]) = "undefined"
              /\ \A n \in 0..MaxIndex :
                    n \in env.assigned <=>
                        \E k \in 1..Len(env.visited) : env.visited[k] = NatToString(n)
              /\ \A k, j \in 1..Len(env.visited) :
                    env.visited[k] = env.visited[j] => k = j
              /\ env.assigned = {0, 1, 9} /\ env.a.properties = <<>> =>
                    env.count = 3 /\ env.a.length = 10
        /\ (env.assignments > 0 /\ Kind(env.last.key) = "string") =>
              /\ env.last.key[2] = "test" => env.a.length = env.last.length
              /\ (env.last.key[2] = "2" /\ env.last.length > 2) =>
                    env.a.length = env.last.length
              /\ env.last.key[2] = "2" =>
                    /\ 2 \in DOMAIN env.a.elements
                    /\ env.a.elements[2] = env.last.value

C18_Witness ==
    /\ test = "sparse arrays" /\ pc = "done"
    /\ env.assigned = {0, 1, 9} /\ env.a.length = 10 /\ env.count = 3
    /\ Kind(env.a.elements[1]) = "undefined"
    /\ Kind(env.reads[2]) = "undefined"

\* C19: NaN, Number("damon"), Number(undefined) and 1 / "test" all produce
\* NaN; when x and y are both NaN, however produced, x == y and x === y are
\* false while Object.is(x, y) is true, and x === x is false; isNaN(x) and
\* Number.isNaN(x) are true of a NaN, whose typeof is "number"; and for
\* every primitive x that is not NaN, x === x is true.
C19_NaNEquality ==
    (test = "NaN" /\ pc = "done") =>
        /\ (\/ inp.x.op = "literal" /\ Kind(inp.x.arg) = "NaN"
            \/ inp.x.op = "Number" /\ Kind(inp.x.arg) = "undefined"
            \/ inp.x.op = "Number" /\ inp.x.arg = Str("damon")
            \/ inp.x.op = "divide" /\ inp.x.arg = Str("test")) => Kind(env.x) = "NaN"
        /\ (Kind(env.x) = "NaN" /\ Kind(env.y) = "NaN") =>
              ~env.loose /\ ~env.strict /\ env.objectIs
        /\ Kind(env.x) = "NaN" =>
              ~env.self /\ env.isNaN /\ env.numberIsNaN /\ env.typeof = "number"
        /\ Kind(env.x) # "NaN" => env.self /\ ~env.numberIsNaN

C19_Witness ==
    /\ test = "NaN" /\ pc = "done"
    /\ inp.x.op = "Number" /\ inp.y.op = "divide"
    /\ Kind(env.x) = "NaN" /\ Kind(env.y) = "NaN"
    /\ ~env.strict /\ ~env.loose /\ env.objectIs

\* C20: for every i of 0 .. 100 the result of each of the three fizz-buzz
\* loop bodies (the flags by3 and by5; i % 15, i % 5, i % 3; accumulation
\* with the || fallback) is the string prove(i) returns, so that the
\* expectation of the turn holds.
C20_FizzBuzz ==
    (test = "fizz-buzz" /\ pc # "loop") =>
        /\ pc = "done"
        /\ Kind(env.result) = "string"
        /\ Kind(env.proved) = "string"
        /\ env.result[2] = env.proved[2]
        /\ env.expects = <<TRUE>>

C20_Witness ==
    /\ test = "fizz-buzz" /\ pc = "done"
    /\ inp.try = "second" /\ inp.i = 0
    /\ env.result = Str("fizzbuzz") /\ env.proved = Str("fizzbuzz")

\* C21: in "proxies-basic" accesses is at all times the number of reads of
\* name made through the proxy, the read inside proxy.echo() included (the
\* test's proxy.name then proxy.echo() gives 1 then 2); a read of another
\* property leaves accesses as it was; and what an access returns is what
\* the target holds.
C21_ProxyCounts ==
    test = "proxies-basic" =>
        /\ env.accesses = env.nameReads
        /\ env.count > 0 =>
              /\ env.last.op \in {"name", "echo()"} =>
                    /\ env.accesses = env.last.accesses + 1
                    /\ env.last.value = Str(inp.name)
              /\ env.last.op \in {"echo", "age"} =>
                    env.accesses = env.last.accesses
              /\ env.last.op = "echo" => env.last.value = env.f[2].echo
              /\ env.last.op = "age" => Kind(env.last.value) = "undefined"

C21_Witness ==
    /\ test = "proxies-basic" /\ env.count = 2 /\ env.last.op = "echo()"
    /\ env.last.accesses = 1 /\ env.accesses = 2
    /\ env.last.value = Str("damon")

\* C22: in "classes-member-deletion", once p.name has been deleted (and
\* not assigned again through the setter) p.name reads as undefined and
\* reading p.capitalizedName throws a TypeError; whatever was done with the
\* member test and with toString(), p.name and p.capitalizedName are the
\* name given, or after an assignment to capitalizedName the lower case of
\* the value assigned, and its upper case; and p.test is "wtf" after it was
\* added and undefined after it was deleted.
C22_MemberDeletion ==
    (test = "classes-member-deletion" /\ pc = "done") =>
        LET did(op) == {k \in 1..Len(env.changes) : env.changes[k] = op}
            last(S) == CHOOSE k \in S : \A j \in S : j <= k
            nameOps == did("delete p.name")
                         \cup did("p.capitalizedName = DAMON")
                         \cup did("p.capitalizedName = COLE")
            lastNameOp == env.changes[last(nameOps)]
        IN  /\ (nameOps # {} /\ lastNameOp = "delete p.name") =>
                  /\ Kind(env.name) = "undefined"
                  /\ env.capitalizedName.threw
                  /\ Kind(env.capitalizedName.value) = "TypeError"
            /\ (nameOps # {} /\ lastNameOp = "p.capitalizedName = DAMON") =>
                  /\ env.name = Str("damon")
                  /\ env.capitalizedName = [threw |-> FALSE,
                                            value |-> Str("DAMON")]
            /\ (nameOps # {} /\ lastNameOp = "p.capitalizedName = COLE") =>
                  /\ env.name = Str("cole")
                  /\ env.capitalizedName = [threw |-> FALSE,
                                            value |-> Str("COLE")]
            /\ nameOps = {} =>
                  /\ env.name = Str(inp.name)
                  /\ ~env.capitalizedName.threw
                  /\ env.capitalizedName.value =
                        Str(IF inp.name = "test" THEN "TEST" ELSE "DAMON")
            /\ (did("p.test = wtf") # {} /\
                (did("delete p.test") = {}
                    \/ last(did("delete p.test")) < last(did("p.test = wtf")))) =>
                  env.test = Str("wtf")
            /\ (did("delete p.test") # {} /\
                (did("p.test = wtf") = {}
                    \/ last(did("p.test = wtf")) < last(did("delete p.test")))) =>
                  Kind(env.test) = "undefined"

C22_Witness ==
    /\ test = "classes-member-deletion" /\ pc = "done"
    /\ env.changes = <<"p.test = wtf", "delete p.test", "delete p.name">>
    /\ Kind(env.name) = "undefined" /\ env.capitalizedName.threw

\* C23: in "default parameter expressions" getValue() has been evaluated
\* once for each call of func whose second argument was omitted or
\* undefined and never for a call that supplied it: val is 10 plus the
\* number of such calls, such a call returns the val it produced and any
\* other call returns its argument; func(1), func(1), func(1, 2) return 11,
\* 12, 2 and leave val at 12.
C23_DefaultParameter ==
    test = "default parameter expressions" =>
        LET omitted(n) == {k \in 1..n : Kind(env.args[k]) = "undefined"}
        IN  /\ env.val = 10 + Cardinality(omitted(Len(env.args)))
            /\ \A k \in 1..Len(env.results) :
                  IF Kind(env.args[k]) = "undefined"
                  THEN env.results[k] = Num(10 + Cardinality(omitted(k)))
                  ELSE env.results[k] = env.args[k]

C23_Witness ==
    /\ test = "default parameter expressions"
    /\ env.args = <<Undefined, Undefined, Num(2)>>
    /\ env.results = <<Num(11), Num(12), Num(2)>>
    /\ env.val = 12

RECURSIVE Interleaved(_, _)
\* strings[1] values[1] strings[2] ... strings[n + 1] as one string
Interleaved(strings, values) ==
    IF values = <<>> THEN strings[1]
    ELSE strings[1] \o TemplateString(values[1])
                    \o Interleaved(Tail(strings), Tail(values))

\* C24: for every template of n substitutions and n + 1 literal strings,
\* n = 0 included, echoReduce returns the string echoTag returns, which is
\* the strings and the substitutions interleaved in order.
C24_TaggedTemplates ==
    (test = "string templates" /\ pc = "done") =>
        /\ Kind(env.message) = "string" /\ Kind(env.reduced) = "string"
        /\ env.reduced[2] = env.message[2]
        /\ env.message[2] = Interleaved(inp.strings, inp.values)

C24_Witness ==
    /\ test = "string templates" /\ pc = "done"
    /\ inp.strings = <<"", " items cost $", "">>
    /\ Len(inp.values) = 2 /\ inp.values[1] = Num(10)
    /\ env.reduced = Str("10 items cost $2.50")

\* C25: in the multicast observable, after an unsubscribe that leaves
\* observers empty no timer of the sequence is pending (so that no value
\* and no complete follows), at whatever stage of the sequence the
\* unsubscribe happens.
C25_LastUnsubscribeCancels ==
    (test = "multicast-interleaving" /\ env.emptied) => timers = <<>>

\* C26: in the multicast observable at most one sequence is running at any
\* time (each running sequence has one pending timer), and no observer
\* receives a value twice or out of order: what it has received is
\* strictly increasing.
C26_OneSequence ==
    test = "multicast-interleaving" =>
        /\ Len(timers) <= 1
        /\ \A k \in 2..Len(env.resultsFirst) :
              env.resultsFirst[k - 1][2] < env.resultsFirst[k][2]
        /\ \A k \in 2..Len(env.resultsSecond) :
              env.resultsSecond[k - 1][2] < env.resultsSecond[k][2]

\* C30: in the multicast observable every unsubscribe takes the
\* unsubscribing observer, and no other, out of the observers list, also
\* when that observer is not in the list any more.
C30_UnsubscribeRemovesOnlyItself ==
    [][(test = "multicast-interleaving"
            /\ env'.unsubscribes = env.unsubscribes + 1) =>
          env'.observers = SelectSeq(env.observers,
                                     LAMBDA o : o # env'.unsubscribed)]_vars

\* C27: eqSets(set1, set2) throws TypeError("set1 is not a Set") when set1
\* is not a Set, TypeError("set2 is not a Set") when set2 is not a Set,
\* and for two Sets returns true exactly when they have the same size and
\* every element of set1 is in set2.
C27_EqSets ==
    (test = "set equality" /\ pc = "done") =>
        IF Kind(inp.set1) # "Set"
        THEN env.result = [threw |-> TRUE,
                           value |-> Err("TypeError", "set1 is not a Set")]
        ELSE IF Kind(inp.set2) # "Set"
        THEN env.result = [threw |-> TRUE,
                           value |-> Err("TypeError", "set2 is not a Set")]
        ELSE env.result =
               [threw |-> FALSE,
                value |-> Bool(/\ Len(inp.set1[2]) = Len(inp.set2[2])
                               /\ \A k \in 1..Len(inp.set1[2]) :
                                     \E j \in 1..Len(inp.set2[2]) :
                                        inp.set2[2][j] = inp.set1[2][k])]

\* C28: in test "switch", for a value matching the last of the
\* fall-through labels, val is set to "test" and the assertion after the
\* switch statement is then evaluated, with val equal to "test".
C28_SwitchAssertion ==
    (test = "switch" /\ pc = "done" /\ inp.a = Str("test")) =>
        /\ env.val = Str("test")
        /\ env.expects = <<TRUE>>

\* C29: pairIterator is single-use and stays finished: the calls of next()
\* return left, then right, then a done result ever after; a first
\* for...of over the fresh object collects exactly [left, right] and every
\* further for...of collects nothing; currentPos never decreases.
C29_PairIterator ==
    /\ [](test = "custom-iterable" =>
            /\ \A k \in 1..Len(env.returns) :
                  env.returns[k] =
                    IF k = 1 THEN [value |-> inp.left, done |-> FALSE]
                    ELSE IF k = 2 THEN [value |-> inp.right, done |-> FALSE]
                    ELSE [value |-> Undefined, done |-> TRUE]
            /\ \A k \in 1..Len(env.loops) :
                  /\ (k = 1 /\ env.loops[k].startPos = 0)
                        => env.loops[k].results = <<inp.left, inp.right>>
                  /\ k > 1 => env.loops[k].results = <<>>)
    /\ [][test = "custom-iterable" => env'.currentPos >= env.currentPos]_vars

\* two for...of loops have run over a fresh pairIterator and next() was
\* called once more
C29_Witness ==
    /\ test = "custom-iterable"
    /\ Len(env.loops) = 2
    /\ env.loops[1].startPos = 0
    /\ env.loops[1].results = <<inp.left, inp.right>>
    /\ env.loops[2].results = <<>>
    /\ env.currentPos = 5

====
